---- MODULE Spec2Model ----
(***************************************************************************)
(* A state-machine model of the Oxen repository engine: the local          *)
(* repository (working tree, staging area, version store, per-commit       *)
(* history dbs, commit db, refs), the commands of command.rs that act on   *)
(* it, the commit pipeline with versioner::backup_file, and Indexer::pull  *)
(* against a remote that holds a small fixed commit graph.                 *)
(***************************************************************************)
EXTENDS Integers, Sequences, FiniteSets, TLC

\* ------------------------------------------------------------------ bounds
\* how many commits the local repository may create (the one of init included)
MaxLocalCommits == 2
\* how many times the user edits the working tree
MaxWrites == 2
\* how many pulls (of commit objects only, with a limit, or full) are started
MaxPulls == 2
\* how many faults the environment injects in one run: an I/O or network
\* error of one call, or the death of the process in the middle of an operation
MaxFaults == 1
\* how many requests of one push the network or the remote lets fail
MaxNetFails == 3
\* how many commits are made on the remote through remote staging
MaxLanded == 2
\* how many distinct values the first key column of a compared frame takes
MaxKeys == 2
\* how many tasks are put on the post-push queue of the server
MaxTasks == 3
\* the row ids of a staged dataframe are 1..MaxRows
MaxRows == 2
\* how many staging requests may change the state of the server
MaxStageOps == 4
\* the ids of the commit objects the server is asked to create
MaxCommitIds == 3

\* ------------------------------------------------------- the value domains
\* paths of the working tree in the key order of the entry db; "drove" is the
\* .drove.txt file that init writes, "sub/one" lives in a subdirectory
PathOrder == <<"drove", "hello", "sub/one">>
PathSet == {PathOrder[i] : i \in 1..Len(PathOrder)}
\* file contents; 0 stands for "the file does not exist"
Bytes == {1, 2}
\* util::hasher::hash_file_contents: an injective map from contents to hashes
HashOf(b) == 100 + b
Hashes == {HashOf(b) : b \in Bytes}
BranchNames == {"main", "b1"}
DEFAULT_BRANCH_NAME == "main"

LocalIds == 1..MaxLocalCommits
\* the commit graph of the remote: 11 is its root, 12 its child
RemoteIds == {11, 12}
\* the commits of the repositories that are pushed: 21 is the root
PushIds == {21, 22, 23, 24}
\* the commits that remote staging makes on the remote
StagedIds == {30 + k : k \in 1..MaxLanded}
CommitIds == LocalIds \cup RemoteIds \cup PushIds \cup StagedIds
EmptyTree == [p \in PathSet |-> 0]

\* polars AnyValue::Null: an empty cell, and the cell of the side of an outer
\* join that has no row
Null == 0
\* the values of the first key column: Null and the values 1..MaxKeys
KeyVals == {Null} \cup (1..MaxKeys)
\* the values of the _targets_hash column of a row
TargetHashes == {1, 2}

VARIABLES
    inited,      \* the hidden .oxen directory exists
    wt,          \* working tree: path -> contents (0: no such file)
    staged,      \* staging db: path -> staged hash (0: not staged)
    versions,    \* version store: hash -> contents stored under it (0: absent)
    hist,        \* commit ids whose history/<id> db directory exists
    tree,        \* history/<id>: path -> hash of the commit's entry (0: none)
    commitDb,    \* commit ids that have a record in the commits db
    parents,     \* parent_ids of the commit records
    branches,    \* refs db: branch name -> commit id (0: no such branch)
    head,        \* HEAD file: a branch name ("none" before init)
    nextId,      \* the next fresh local commit id
    pc,          \* position of the running operation ("idle": none)
    opId,        \* the commit the running operation works on
    opBranch,    \* the branch name the running pull works on
    pending,     \* staged paths the running commit has still to back up
    stack,       \* frames of check_parent_and_pull_commit_objects
    lastOp,      \* the last command started: "init", "commit", "checkout",
                 \* "pull", "pull_objects", "pull_limit", or "other"
    lastResult,  \* what it returned ("running" while it runs)
    lastArg,     \* the branch name it was given ("none": it takes none)
    copyFailed,  \* the running/last commit logged "Could not copy"
    preRefs,     \* <<head, branches>> when the running operation started
    nWrites, nPulls, nFaults,
    rCommits,    \* push remote: the commit records it has accepted
    rHist,       \* push remote: the commits whose history db tarball it has
    rVersions,   \* push remote: the hashes whose version files it has
    rBranch,     \* push remote: the commit of the pushed branch (0: none)
    unsynced,    \* push: the VecDeque unsynced_commits
    lastCommit,  \* push: last_commit of rpush_entries
    posted,      \* push: the commits posted by this push, in order
    upData,      \* upload: the buffer that is being posted
    upChunk,     \* upload: index of the chunk that is being sent
    sent,        \* upload: the requests of this buffer the remote accepted
    tries,       \* upload: total_tries of the retry loop
    sleeps,      \* upload: the sleep times of the retry loop, in seconds
    swallowed,   \* push: the upload error that was logged and dropped:
                 \* "chunk", "entries", or "none"
    nNetFails,
    rChunks,     \* push remote: per commit, the chunk files it holds, as
                 \* records [n, data] in the order they were written
    rLock,       \* remote: the lock file of branch main exists
    rLockHead,   \* remote: the commit id kept in the lock file
    nLanded,     \* remote: how many commits remote staging has made
    diffIn,      \* tabular diff: the arguments of compare
    diffOut,     \* tabular diff: what compare returned
    cloneOf,     \* the commit that was pushed to the remote the local
                 \* repository is an empty clone of; 0: it is no such clone
    schemaIn,    \* schemas: the two (name, fields) the schemas are made from
    schemaOut,   \* schemas: the two Schema values made
    vstore,      \* version store: what every version path holds
    wpc,         \* version store: where every writer is in its backup
    wpos,        \* version store: how many bytes every writer has written
    tqKind,      \* task queue: "redis" or "memory", as init_queue chose
    tqQueue,     \* task queue: the tasks put on it and not yet popped
    tqPc,        \* task queue: where the poller is in its loop
    tqCur,       \* task queue: the task the poller popped (0: none)
    tqRuns,      \* task queue: how often every task has been run
    tqStatus,    \* task queue: "none", "panicked", or "failed" once the
                 \* cachers of the task's commit are marked failed
    nEnq,        \* task queue: how many tasks have been put on the queue
    vUnreadable, \* version store: the paths whose bytes cannot be read
    sgHead,      \* remote staging: branch -> number of its head commit
    sgFile,      \* remote staging: branch -> row ids of the committed file
    sgStore,     \* remote staging: (branch, identifier) -> staged store
    sgResp,      \* remote staging: the last response of the server
    nStageOps,   \* remote staging: how many requests changed the state
    ccDb,        \* commit objects: ids with a record in the commits db
    ccParents,   \* commit objects: parent_ids of the records
    ccRef,       \* commit objects: branch name -> commit id (0: none)
    ccResult     \* commit objects: the last call and what it returned

vars == <<inited, wt, staged, versions, hist, tree, commitDb, parents, branches,
          head, nextId, pc, opId, opBranch, pending, stack, lastOp, lastResult,
          lastArg, copyFailed, preRefs, nWrites, nPulls, nFaults,
          rCommits, rHist, rVersions, rBranch, unsynced, lastCommit, posted,
          upData, upChunk, sent, tries, sleeps, swallowed, nNetFails,
          rChunks, rLock, rLockHead, nLanded, diffIn, diffOut, cloneOf,
          schemaIn, schemaOut, vstore, wpc, wpos,
          tqKind, tqQueue, tqPc, tqCur, tqRuns, tqStatus, nEnq, vUnreadable,
          sgHead, sgFile, sgStore, sgResp, nStageOps,
          ccDb, ccParents, ccRef, ccResult>>

\* the state of the push remote and of a running push
pushVars == <<rCommits, rHist, rVersions, rBranch, unsynced, lastCommit, posted,
              upData, upChunk, sent, tries, sleeps, swallowed, nNetFails,
              rChunks>>
\* the branch lock of the remote and the commits of remote staging
lockVars == <<rLock, rLockHead, nLanded>>
\* the tabular diff
diffVars == <<diffIn, diffOut>>
\* the clone
cloneVars == <<cloneOf>>
\* the schemas
schemaVars == <<schemaIn, schemaOut>>
\* the state of the parts of the program that are looked at on their own
\* the writers of the version store
storeVars == <<vstore, wpc, wpos, vUnreadable>>
\* the post-push task queue of the server and its poller
queueVars == <<tqKind, tqQueue, tqPc, tqCur, tqRuns, tqStatus, nEnq>>
\* the staged-row edit sessions of the server
stageVars == <<sgHead, sgFile, sgStore, sgResp, nStageOps>>
\* the commit objects the server creates
createVars == <<ccDb, ccParents, ccRef, ccResult>>
auxVars == <<schemaVars, storeVars, queueVars, stageVars, createVars>>

repoVars == <<inited, wt, staged, versions, hist, tree, commitDb, parents,
              branches, head>>
\* the local repository, the remote, the push, the lock, the clone, the diff
mainVars == <<repoVars, nextId, pc, opId, opBranch, pending, stack, lastOp,
              lastResult, lastArg, copyFailed, preRefs, nWrites, nPulls,
              nFaults, pushVars, lockVars, cloneVars, diffVars>>
\* what the schemas, the version store and the task queue leave alone
sideVars == <<mainVars, stageVars, createVars>>
\* what the staged-row edit sessions leave alone
sideMainVars == <<mainVars, schemaVars, storeVars, queueVars, createVars>>
\* what the creation of commit objects leaves alone
sideStageVars == <<mainVars, schemaVars, storeVars, queueVars, stageVars>>

\* no lock file on the remote, no commit made by remote staging
LockFree ==
    /\ rLock = FALSE
    /\ rLockHead = 0
    /\ nLanded = 0

\* compare has not been called
NoDiffInput ==
    [left |-> [k \in KeyVals |-> Null], right |-> [k \in KeyVals |-> Null],
     keys |-> <<>>, targets |-> <<>>, display |-> <<>>,
     added_cols |-> {}, removed_cols |-> {}, unchanged_cols |-> {}]
NoDiffOutput == [outcome |-> "none", columns |-> <<>>, rows |-> <<>>]
DiffIdle ==
    /\ diffIn = NoDiffInput
    /\ diffOut = NoDiffOutput

\* no schema has been made
SchemaIdle ==
    /\ schemaIn = <<>>
    /\ schemaOut = <<>>
\* the processes that write to the version store
Writers == {"w1", "w2"}
\* the version paths: that of a file entry and that of a schema
VersionPaths == {"entry", "schema"}
\* a path that does not exist, and a file with its bytes
NoFile == [exists |-> FALSE, bytes |-> <<>>]
FileOf(b) == [exists |-> TRUE, bytes |-> b]
\* no version file is written, no writer has started
StoreIdle ==
    /\ vstore = [p \in VersionPaths |-> NoFile]
    /\ wpc = [w \in Writers |-> "idle"]
    /\ wpos = [w \in Writers |-> 0]
    /\ vUnreadable = {}
\* the tasks that are put on the queue, in this order
Tasks == 1..MaxTasks
\* the queue is empty, the poller is about to pop
QueueEmpty ==
    /\ tqQueue = <<>>
    /\ tqPc = "pop"
    /\ tqCur = 0
    /\ tqRuns = [t \in Tasks |-> 0]
    /\ tqStatus = [t \in Tasks |-> "none"]
    /\ nEnq = 0
QueueIdle == tqKind = "memory" /\ QueueEmpty
\* the branches and the user identifiers of the staging requests
StBranches == {"main", "dev"}
Identifiers == {"u1", "u2"}
RowIds == 1..MaxRows
\* the staged store of a (branch, identifier) whose file is not indexed
NoSession == [indexed |-> FALSE, base |-> 0, rows |-> [r \in RowIds |-> "absent"]]
NoResp == [op |-> "none", branch |-> "main", identifier |-> "u1", status |-> "none", view |-> {}]
\* the file of every branch holds row 1, nothing is indexed
StageIdle ==
    /\ sgHead = [b \in StBranches |-> 0]
    /\ sgFile = [b \in StBranches |-> {1}]
    /\ sgStore = [k \in StBranches \X Identifiers |-> NoSession]
    /\ sgResp = NoResp
    /\ nStageOps = 0
ObjectIds == 1..MaxCommitIds
NoCall == [id |-> 0, branch |-> "main", parent_ids |-> {}, stored |-> FALSE, result |-> "none"]
\* an empty commits db, no branch
CreateIdle ==
    /\ ccDb = {}
    /\ ccParents = [c \in ObjectIds |-> {}]
    /\ ccRef = [b \in StBranches |-> 0]
    /\ ccResult = NoCall
\* the parts that are looked at on their own are idle
AuxIdle == SchemaIdle /\ StoreIdle /\ QueueIdle /\ StageIdle /\ CreateIdle

\* a repository before init, an untouched remote
IdleRepo ==
    /\ inited = FALSE
    /\ wt = EmptyTree
    /\ staged = EmptyTree
    /\ versions = [h \in Hashes |-> 0]
    /\ hist = {}
    /\ tree = [c \in CommitIds |-> EmptyTree]
    /\ commitDb = {}
    /\ parents = [c \in CommitIds |-> {}]
    /\ branches = [b \in BranchNames |-> 0]
    /\ head = "none"
    /\ nextId = 1
    /\ pc = "idle"
    /\ opId = 0
    /\ opBranch = "none"
    /\ pending = {}
    /\ stack = <<>>
    /\ lastOp = "none"
    /\ lastResult = "none"
    /\ lastArg = "none"
    /\ copyFailed = FALSE
    /\ preRefs = <<"none", [b \in BranchNames |-> 0]>>
    /\ nWrites = 0
    /\ nPulls = 0
    /\ nFaults = 0
    /\ rCommits = {}
    /\ rHist = {}
    /\ rVersions = {}
    /\ rBranch = 0
    /\ unsynced = <<>>
    /\ lastCommit = 0
    /\ posted = <<>>
    /\ upData = <<>>
    /\ upChunk = 0
    /\ sent = <<>>
    /\ tries = 0
    /\ sleeps = <<>>
    /\ swallowed = "none"
    /\ nNetFails = 0
    /\ rChunks = [c \in PushIds |-> <<>>]
    /\ LockFree
    /\ cloneOf = 0

Init == IdleRepo /\ DiffIdle /\ AuxIdle

\* ------------------------------------------------------------ pure helpers
\* Referencer::get_current_branch / head commit id: the commit HEAD's branch names
HeadCommitId == IF head \in BranchNames THEN branches[head] ELSE 0
\* the entries of the HEAD commit, read from its history db
HeadTree == IF HeadCommitId \in hist THEN tree[HeadCommitId] ELSE EmptyTree
\* Stager::status: the paths reported as added
StatusAdded == {p \in PathSet : staged[p] # 0}
\* Stager::status: files of the working tree neither staged nor in HEAD
StatusUntracked == {p \in PathSet : wt[p] # 0 /\ staged[p] = 0 /\ HeadTree[p] = 0}

RECURSIVE HistoryFrom(_, _)
\* CommitReader::history_from_commit_id: the commit and its ancestors that
\* are in the commit db, as a set; `seen` stops the walk on a revisit
HistoryFrom(c, seen) ==
    IF c = 0 \/ c \notin commitDb \/ c \in seen THEN {}
    ELSE LET ps == parents[c]
             F[S \in SUBSET ps] ==
                 IF S = {} THEN {}
                 ELSE LET q == CHOOSE x \in S : TRUE
                      IN HistoryFrom(q, seen \cup {c}) \cup F[S \ {q}]
         IN {c} \cup F[ps]
\* command::log: the commits of the current branch from HEAD
Log == HistoryFrom(HeadCommitId, {})

\* no operation is running: no snapshot of the refs
NoRefs == <<"none", [b \in BranchNames |-> 0]>>

\* a call whose outcome is `ok` draws on the fault budget when it fails
Fault(ok) ==
    /\ ok \/ nFaults < MaxFaults
    /\ nFaults' = IF ok THEN nFaults ELSE nFaults + 1

\* control and bookkeeping of an operation that ends with result r
Finish(r) ==
    /\ pc' = "idle"
    /\ opId' = 0
    /\ opBranch' = "none"
    /\ pending' = {}
    /\ stack' = <<>>
    /\ preRefs' = NoRefs
    /\ lastResult' = r

\* the bookkeeping of a command that runs in one step
OneStep(op, arg, r) ==
    /\ lastOp' = op
    /\ lastArg' = arg
    /\ copyFailed' = FALSE
    /\ Finish(r)
    /\ UNCHANGED <<nextId, nWrites, nPulls, nFaults>>

\* ------------------------------------------------------------- the user
\* the user writes, modifies or deletes (b = 0) a file of the working tree
WriteFile(p, b) ==
    /\ UNCHANGED <<pushVars, lockVars, cloneVars, diffVars, auxVars>>
    /\ inited /\ pc = "idle"
    /\ nWrites < MaxWrites
    /\ wt[p] # b
    /\ wt' = [wt EXCEPT ![p] = b]
    /\ nWrites' = nWrites + 1
    /\ lastOp' = "other" /\ lastResult' = "ok" /\ lastArg' = "none"
    /\ UNCHANGED <<inited, staged, versions, hist, tree, commitDb, parents,
                   branches, head, nextId, pc, opId, opBranch, pending, stack,
                   copyFailed, preRefs, nPulls, nFaults>>

\* --------------------------------------------------------------- staging
\* Stager::add on one file: hash it and stage it unless HEAD has the same hash
StagerAdd(st, p) ==
    IF HeadTree[p] = HashOf(wt[p]) THEN st ELSE [st EXCEPT ![p] = HashOf(wt[p])]

\* Stager::unstage: truncate the staging db
StagerUnstage == EmptyTree

\* command::add
CmdAdd(p) ==
    /\ UNCHANGED <<pushVars, lockVars, cloneVars, diffVars, auxVars>>
    /\ inited /\ pc = "idle"
    /\ IF wt[p] = 0 \/ HeadCommitId \notin commitDb
       THEN \* the path does not exist, or the head commit cannot be read
            /\ OneStep("other", "none", "err")
            /\ UNCHANGED repoVars
       ELSE /\ staged' = StagerAdd(staged, p)
            /\ OneStep("other", "none", "ok")
            /\ UNCHANGED <<inited, wt, versions, hist, tree, commitDb, parents,
                           branches, head>>

\* ------------------------------------------------------- the commit pipeline
\* versioner::should_copy_entry with path_hash_is_different: copy when the
\* version file is absent or holds bytes that do not hash to the entry's hash
should_copy_entry(vs, h) == vs[h] = 0 \/ HashOf(vs[h]) # h

\* versioner::backup_file of the entry with hash h from a file holding src
\* (0: the file is gone); copyOk is the outcome of copy_mkdir and tsOk that of
\* set_file_timestamps.  A failed copy is logged only; the one error the
\* function returns is that of set_file_timestamps.
backup_file(vs, h, src, copyOk, tsOk) ==
    IF should_copy_entry(vs, h)
    THEN LET copied == copyOk /\ src # 0
         IN [versions |-> IF copied THEN [vs EXCEPT ![h] = src] ELSE vs,
             logged |-> ~copied,
             ok |-> (src = 0) \/ tsOk]
    ELSE [versions |-> vs, logged |-> FALSE, ok |-> TRUE]

\* the commit pipeline is entered with the staged paths to write
StartCommit(op) ==
    /\ nextId <= MaxLocalCommits
    /\ opId' = nextId
    /\ nextId' = nextId + 1
    /\ pending' = {p \in PathSet : staged'[p] # 0}
    /\ pc' = IF pending' = {} THEN "c_tree" ELSE "c_backup"
    /\ lastOp' = op
    /\ lastArg' = "none"
    /\ lastResult' = "running"
    /\ copyFailed' = FALSE
    /\ preRefs' = <<head', branches>>
    /\ UNCHANGED <<opBranch, stack, nWrites, nPulls, nFaults>>

\* an init that creates the repository and .drove.txt but commits nothing
CmdInitNoCommit ==
    /\ UNCHANGED <<pushVars, lockVars, cloneVars, diffVars, auxVars>>
    /\ ~inited /\ pc = "idle"
    /\ inited' = TRUE
    /\ head' = DEFAULT_BRANCH_NAME
    /\ wt' = [wt EXCEPT !["drove"] = 1]
    /\ OneStep("init", "none", "some")
    /\ UNCHANGED <<staged, versions, hist, tree, commitDb, parents, branches>>

\* command::init: create the repository, write .drove.txt, add it, commit it
CmdInit ==
    /\ UNCHANGED <<pushVars, lockVars, cloneVars, diffVars, auxVars>>
    /\ ~inited /\ pc = "idle"
    /\ inited' = TRUE
    /\ head' = DEFAULT_BRANCH_NAME
    /\ wt' = [wt EXCEPT !["drove"] = 1]
    /\ staged' = [staged EXCEPT !["drove"] = HashOf(1)]
    /\ StartCommit("init")
    /\ UNCHANGED <<versions, hist, tree, commitDb, parents, branches>>

\* Committer::commit answers None when the status holds nothing to commit
CommitterReturnsNone(added) == added = {}

\* a commit that writes a commit whatever the status holds, as
\* api::local::commits::commit_with_no_files does
CommitBeginAlways ==
    /\ UNCHANGED <<pushVars, lockVars, cloneVars, diffVars, auxVars>>
    /\ inited /\ pc = "idle"
    /\ UNCHANGED repoVars
    /\ StartCommit("commit")

\* command::commit up to the call of the committer: nothing staged, no commit
CommitBegin ==
    /\ UNCHANGED <<pushVars, lockVars, cloneVars, diffVars, auxVars>>
    /\ inited /\ pc = "idle"
    /\ IF CommitterReturnsNone(StatusAdded)
       THEN /\ OneStep("commit", "none", "none")
            /\ UNCHANGED repoVars
       ELSE /\ UNCHANGED repoVars
            /\ StartCommit("commit")

\* step 1 of the commit writer, once per staged file: the bytes go to the
\* version store
CommitBackup(p, copyOk, tsOk) ==
    /\ UNCHANGED <<pushVars, lockVars, cloneVars, diffVars, auxVars>>
    /\ pc = "c_backup" /\ p \in pending
    \* the outcomes matter only for a call that is made
    /\ (should_copy_entry(versions, staged[p]) /\ wt[p] # 0) \/ (copyOk /\ tsOk)
    /\ Fault(copyOk /\ tsOk)
    /\ LET r == backup_file(versions, staged[p], wt[p], copyOk, tsOk)
       IN /\ versions' = r.versions
          /\ copyFailed' = (copyFailed \/ r.logged)
          /\ IF r.ok
             THEN /\ pending' = pending \ {p}
                  /\ pc' = IF pending' = {} THEN "c_tree" ELSE "c_backup"
                  /\ UNCHANGED <<opId, opBranch, stack, lastResult, preRefs>>
             ELSE Finish("err")
    /\ UNCHANGED <<inited, wt, staged, hist, tree, commitDb, parents, branches,
                   head, nextId, lastOp, lastArg, nWrites, nPulls>>

\* steps 2-3: the entries of the new commit are written to its history db:
\* the parent's entries with the staged ones laid over them
CommitWriteTree ==
    /\ UNCHANGED <<pushVars, lockVars, cloneVars, diffVars, auxVars>>
    /\ pc = "c_tree"
    /\ hist' = hist \cup {opId}
    /\ tree' = [tree EXCEPT ![opId] =
                  [p \in PathSet |-> IF staged[p] # 0 THEN staged[p] ELSE HeadTree[p]]]
    /\ pc' = "c_record"
    /\ UNCHANGED <<inited, wt, staged, versions, commitDb, parents, branches, head,
                   nextId, opId, opBranch, pending, stack, lastOp, lastResult,
                   lastArg, copyFailed, preRefs, nWrites, nPulls, nFaults>>

\* CommitWriter::add_commit_to_db: one put into the commits db
add_commit_to_db(c, ps) ==
    /\ commitDb' = commitDb \cup {c}
    /\ parents' = [parents EXCEPT ![c] = ps]

\* steps 4-5a: the commit record, with the head commit as its parent
CommitRecord(ok) ==
    /\ UNCHANGED <<pushVars, lockVars, cloneVars, diffVars, auxVars>>
    /\ pc = "c_record"
    /\ Fault(ok)
    /\ IF ok
       THEN /\ add_commit_to_db(opId, IF HeadCommitId = 0 THEN {} ELSE {HeadCommitId})
            /\ pc' = "c_branch"
            /\ UNCHANGED <<opId, opBranch, pending, stack, lastResult, preRefs>>
       ELSE /\ UNCHANGED <<commitDb, parents>>
            /\ Finish("err")
    /\ UNCHANGED <<inited, wt, staged, versions, hist, tree, branches, head, nextId,
                   lastOp, lastArg, copyFailed, nWrites, nPulls>>

\* a put that writes the commit id under every branch name of the refs db
SetEveryBranch(name, c) == branches' = [b \in BranchNames |-> IF branches[b] # 0 \/ b = name THEN c ELSE 0]

\* RefWriter::set_branch_commit_id: one put into the refs db
set_branch_commit_id(name, c) == branches' = [branches EXCEPT ![name] = c]

\* step 5b: the branch HEAD names is moved to the new commit
CommitBranch(ok) ==
    /\ UNCHANGED <<pushVars, lockVars, cloneVars, diffVars, auxVars>>
    /\ pc = "c_branch"
    /\ Fault(ok)
    /\ IF ok
       THEN /\ set_branch_commit_id(head, opId)
            /\ pc' = "c_unstage"
            /\ UNCHANGED <<opId, opBranch, pending, stack, lastResult, preRefs>>
       ELSE /\ UNCHANGED branches
            /\ Finish("err")
    /\ UNCHANGED <<inited, wt, staged, versions, hist, tree, commitDb, parents, head,
                   nextId, lastOp, lastArg, copyFailed, nWrites, nPulls>>

\* a commit that returns the new commit and leaves the staging db alone
CommitKeepStaged ==
    /\ UNCHANGED <<pushVars, lockVars, cloneVars, diffVars, auxVars>>
    /\ pc = "c_unstage"
    /\ staged' = staged
    /\ Finish("some")
    /\ UNCHANGED <<inited, wt, versions, hist, tree, commitDb, parents, branches,
                   head, nextId, lastOp, lastArg, copyFailed, nWrites, nPulls,
                   nFaults>>

\* command::commit after the committer returned Some(commit): unstage
CommitUnstage ==
    /\ UNCHANGED <<pushVars, lockVars, cloneVars, diffVars, auxVars>>
    /\ pc = "c_unstage"
    /\ staged' = StagerUnstage
    /\ Finish("some")
    /\ UNCHANGED <<inited, wt, versions, hist, tree, commitDb, parents, branches,
                   head, nextId, lastOp, lastArg, copyFailed, nWrites, nPulls,
                   nFaults>>

\* ------------------------------------------------------ branches, checkout
\* Referencer::has_branch
has_branch(name) == branches[name] # 0

\* Committer::get_head_commit returning Ok(Some(commit))
HasHeadCommit == HeadCommitId # 0 /\ HeadCommitId \in commitDb

\* Referencer::create_branch: a new ref; an existing name is an error
ReferencerCreateBranch(name, c) == [branches EXCEPT ![name] = c]

\* command::create_branch: a new pointer to the head commit, HEAD stays
CmdCreateBranch(name) ==
    /\ UNCHANGED <<pushVars, lockVars, cloneVars, diffVars, auxVars>>
    /\ inited /\ pc = "idle"
    /\ IF HasHeadCommit /\ ~has_branch(name)
       THEN /\ branches' = ReferencerCreateBranch(name, HeadCommitId)
            /\ OneStep("other", "none", "ok")
            /\ UNCHANGED <<inited, wt, staged, versions, hist, tree, commitDb,
                           parents, head>>
       ELSE /\ OneStep("other", "none", "err")
            /\ UNCHANGED repoVars

\* command::create_checkout_branch: create the branch and point HEAD at it
CmdCreateCheckoutBranch(name) ==
    /\ UNCHANGED <<pushVars, lockVars, cloneVars, diffVars, auxVars>>
    /\ inited /\ pc = "idle"
    /\ IF HasHeadCommit /\ ~has_branch(name)
       THEN /\ branches' = ReferencerCreateBranch(name, HeadCommitId)
            /\ head' = name
            /\ OneStep("other", "none", "ok")
            /\ UNCHANGED <<inited, wt, staged, versions, hist, tree, commitDb,
                           parents>>
       ELSE /\ OneStep("other", "none", "err")
            /\ UNCHANGED repoVars

\* the working tree differs from what the tree `t` records at path p
Dirty(w, t, p) == IF w[p] = 0 THEN t[p] # 0 ELSE HashOf(w[p]) # t[p]

\* checkout refuses when a file that differs between the two trees has an
\* uncommitted modification
CheckoutRefuses(w, cur, tgt) ==
    \E p \in PathSet : cur[p] # tgt[p] /\ Dirty(w, cur, p)

\* a checkout that rewrites the whole working tree from the target tree
MaterializeAll(i, w, cur, tgt) ==
    [wt |-> [p \in PathSet |-> IF tgt[p] = 0 THEN 0
                               ELSE IF versions[tgt[p]] = 0 THEN w[p]
                               ELSE versions[tgt[p]]],
     ok |-> \A p \in PathSet : tgt[p] # 0 => versions[tgt[p]] # 0]

RECURSIVE Materialize(_, _, _, _)
\* the files that differ between the current and the target tree are removed
\* or copied from the version store, in path order; the first file whose
\* version is missing stops the walk and what was restored so far stays
Materialize(i, w, cur, tgt) ==
    IF i > Len(PathOrder) THEN [wt |-> w, ok |-> TRUE]
    ELSE LET p == PathOrder[i] IN
         IF cur[p] = tgt[p] THEN Materialize(i + 1, w, cur, tgt)
         ELSE IF tgt[p] = 0 THEN Materialize(i + 1, [w EXCEPT ![p] = 0], cur, tgt)
         ELSE IF versions[tgt[p]] = 0 THEN [wt |-> w, ok |-> FALSE]
         ELSE Materialize(i + 1, [w EXCEPT ![p] = versions[tgt[p]]], cur, tgt)

\* a checkout that never refuses: modified files are overwritten
SetWorkingRepoForce(name) ==
    IF branches[name] \notin commitDb \/ branches[name] \notin hist
       THEN [wt |-> wt, ok |-> FALSE]
    ELSE Materialize(1, wt, HeadTree, tree[branches[name]])

\* Committer::set_working_repo_to_branch: the result of materializing the
\* commit of branch `name` into the working tree
SetWorkingRepoToBranch(name) ==
    IF branches[name] \notin commitDb \/ branches[name] \notin hist
       THEN [wt |-> wt, ok |-> FALSE]
    ELSE IF CheckoutRefuses(wt, HeadTree, tree[branches[name]])
       THEN [wt |-> wt, ok |-> FALSE]
    ELSE Materialize(1, wt, HeadTree, tree[branches[name]])

\* a checkout_branch that drops the error of set_working_repo_to_branch
CmdCheckoutIgnoresError(name) ==
    /\ UNCHANGED <<pushVars, lockVars, cloneVars, diffVars, auxVars>>
    /\ inited /\ pc = "idle"
    /\ has_branch(head) /\ head # name /\ has_branch(name)
    /\ wt' = SetWorkingRepoToBranch(name).wt
    /\ head' = name
    /\ OneStep("checkout", name, "ok")
    /\ UNCHANGED <<inited, staged, versions, hist, tree, commitDb, parents,
                   branches>>

\* command::checkout_branch
CmdCheckout(name) ==
    /\ UNCHANGED <<pushVars, lockVars, cloneVars, diffVars, auxVars>>
    /\ inited /\ pc = "idle"
    /\ IF ~has_branch(head)
       THEN \* get_current_branch fails
            /\ OneStep("checkout", name, "err")
            /\ UNCHANGED repoVars
       ELSE IF head = name
       THEN \* already on the branch: nothing to do
            /\ OneStep("checkout", name, "ok")
            /\ UNCHANGED repoVars
       ELSE IF has_branch(name)
       THEN LET r == SetWorkingRepoToBranch(name)
            IN /\ wt' = r.wt
               /\ head' = IF r.ok THEN name ELSE head
               /\ OneStep("checkout", name, IF r.ok THEN "ok" ELSE "err")
               /\ UNCHANGED <<inited, staged, versions, hist, tree, commitDb,
                              parents, branches>>
       ELSE /\ OneStep("checkout", name, "err")
            /\ UNCHANGED repoVars

\* ------------------------------------------- the repository that is pushed
\* the commit graph of a repository that is pushed; 24 is a merge commit
PushParentIds(c) ==
    IF c = 22 \/ c = 23 THEN <<21>>
    ELSE IF c = 24 THEN <<22, 23>>
    ELSE <<>>
\* the entries of its commits
PushTree(c) ==
    IF c = 21 THEN [p \in PathSet |-> IF p = "drove" THEN HashOf(1) ELSE 0]
    ELSE IF c = 22 THEN [p \in PathSet |-> IF p = "drove" THEN HashOf(1)
                                           ELSE IF p = "hello" THEN HashOf(2) ELSE 0]
    ELSE IF c = 23 THEN [p \in PathSet |-> IF p = "drove" THEN HashOf(2) ELSE 0]
    ELSE IF c = 24 THEN [p \in PathSet |-> IF p = "sub/one" THEN 0 ELSE HashOf(2)]
    ELSE EmptyTree
RECURSIVE PushAncestors(_)
\* a commit of the graph with all its ancestors
PushAncestors(c) ==
    {c} \cup UNION {PushAncestors(PushParentIds(c)[i]) : i \in 1..Len(PushParentIds(c))}
\* the hashes of the entries of a tree
TreeHashes(t) == {t[p] : p \in PathSet} \ {0}

\* ------------------------------------------------------------- the remote
\* A pull reads one of two remotes: the remote of the commits 11 and 12,
\* which has everything of them, or, in an empty clone, the remote that was
\* pushed to, which has what the push left on it.
\* api::remote::branches::get_by_name: the remote has the one branch main,
\* at commit 12 or where the push left it (0: no such remote branch)
RemoteBranchCommit(name) ==
    IF name # DEFAULT_BRANCH_NAME THEN 0
    ELSE IF cloneOf # 0 THEN rBranch ELSE 12
\* api::remote::commits::get_remote_parent: the parent commits, in order
RemoteParents(c) ==
    IF cloneOf # 0 THEN PushParentIds(c)
    ELSE IF c = 12 THEN <<11>> ELSE <<>>
\* the entries of the remote's commits, as download_commit_db_by_id unpacks them
RemoteTree(c) ==
    IF cloneOf # 0 THEN PushTree(c)
    ELSE IF c = 11 THEN [p \in PathSet |->
                      IF p = "sub/one" THEN 0 ELSE HashOf(1)]
    ELSE [p \in PathSet |-> IF p = "hello" THEN HashOf(2) ELSE HashOf(1)]
\* the remote has the record of commit c
RemoteHasCommit(c) == cloneOf # 0 => c \in rCommits
\* the remote has the history db of commit c
RemoteHasDb(c) == cloneOf # 0 => c \in rHist
\* the remote has the version file of hash h
RemoteHasVersion(h) == cloneOf # 0 => h \in rVersions
\* the remote's version store holds under every hash the bytes that hash to it
RemoteContent(h) == CHOOSE b \in Bytes : HashOf(b) = h
\* the limits pull_entries_for_commit_with_limit is called with
Limits == {1, 2}
SeqToSet(q) == {q[i] : i \in 1..Len(q)}

\* --------------------------------------------------------- Indexer::pull
\* Indexer::pull, Indexer::pull_all_commit_objects up to the lookup of the
\* remote branch and its commit (pull_all_commit_objects_then); `kind` is
\* "pull" or "pull_objects", `got` the answer of commits::get_by_id
PullBegin(kind, name, got) ==
    /\ UNCHANGED <<pushVars, lockVars, cloneVars, diffVars, auxVars>>
    /\ inited /\ pc = "idle"
    /\ nPulls < MaxPulls
    /\ nPulls' = nPulls + 1
    /\ lastOp' = kind /\ lastArg' = "none"
    /\ copyFailed' = FALSE
    /\ IF RemoteBranchCommit(name) = 0
       THEN \* "Remote branch not found"
            /\ got = "some"
            /\ Finish("err")
            /\ UNCHANGED nFaults
       ELSE \* a remote without the record of the commit answers Ok(None)
            /\ IF RemoteHasCommit(RemoteBranchCommit(name))
               THEN Fault(got = "some")
               ELSE got = "none" /\ UNCHANGED nFaults
            /\ IF got = "some"
               THEN /\ pc' = "p_sethead"
                    /\ opId' = RemoteBranchCommit(name)
                    /\ opBranch' = name
                    /\ lastResult' = "running"
                    /\ preRefs' = <<head, branches>>
                    /\ UNCHANGED <<pending, stack>>
               ELSE \* Ok(None) and Err are reported and the pull returns Ok
                    Finish("ok")
    /\ UNCHANGED <<repoVars, nextId, nWrites>>

\* set_branch_name_for_commit, first write: HEAD names the pulled branch
PullSetHead ==
    /\ UNCHANGED <<pushVars, lockVars, cloneVars, diffVars, auxVars>>
    /\ pc = "p_sethead"
    /\ head' = opBranch
    /\ pc' = "p_setbranch"
    /\ UNCHANGED <<inited, wt, staged, versions, hist, tree, commitDb, parents,
                   branches, nextId, opId, opBranch, pending, stack, lastOp,
                   lastResult, lastArg, copyFailed, preRefs, nWrites, nPulls,
                   nFaults>>

\* set_branch_name_for_commit, second write: the branch points at the remote
\* commit; then rpull_missing_commit_objects looks for the commit's history db
PullSetBranch(ok) ==
    /\ UNCHANGED <<pushVars, lockVars, cloneVars, diffVars, auxVars>>
    /\ pc = "p_setbranch"
    /\ Fault(ok)
    /\ IF ok
       THEN /\ set_branch_commit_id(opBranch, opId)
            /\ IF opId \in hist
               THEN \* "commit db already downloaded"
                    /\ pc' = IF lastOp = "pull" THEN "p_entries" ELSE "p_done"
                    /\ stack' = <<>>
               ELSE /\ pc' = "p_objects"
                    /\ stack' = <<[c |-> opId, ph |-> "check"]>>
            /\ UNCHANGED <<opId, opBranch, pending, lastResult, preRefs>>
       ELSE /\ UNCHANGED branches
            /\ Finish("err")
    /\ UNCHANGED <<inited, wt, staged, versions, hist, tree, commitDb, parents,
                   head, nextId, lastOp, lastArg, copyFailed, nWrites,
                   nPulls>>

\* check_parent_and_pull_commit_objects, the parents: they are pulled first
\* when get_remote_parent answers, and skipped when it fails
PullCheckParent(ok) ==
    /\ UNCHANGED <<pushVars, lockVars, cloneVars, diffVars, auxVars>>
    /\ pc = "p_objects" /\ stack # <<>> /\ Head(stack).ph = "check"
    /\ Fault(ok)
    /\ LET c == Head(stack).c
           ps == IF ok THEN RemoteParents(c) ELSE <<>>
       IN stack' = [i \in 1..Len(ps) |-> [c |-> ps[i], ph |-> "check"]]
                   \o <<[c |-> c, ph |-> "store"]>> \o Tail(stack)
    /\ UNCHANGED <<repoVars, nextId, pc, opId, opBranch, pending, lastOp,
                   lastResult, lastArg, copyFailed, preRefs, nWrites, nPulls>>

\* pull_commit_data_objects of commit c: download_commit_db_by_id, then
\* commits::get_by_id, then add_commit_to_db; `outcome` names the call that
\* fails ("db", "get", "add") or is "ok".  The result: the history dbs, the
\* commit db and whether the call returned Ok
pull_commit_data_objects(c, outcome) ==
    [hist |-> IF outcome = "db" THEN hist ELSE hist \cup {c},
     tree |-> IF outcome = "db" THEN tree ELSE [tree EXCEPT ![c] = RemoteTree(c)],
     commitDb |-> IF outcome = "ok" THEN commitDb \cup {c} ELSE commitDb,
     parents |-> IF outcome = "ok"
                 THEN [parents EXCEPT ![c] = SeqToSet(RemoteParents(c))]
                 ELSE parents,
     ok |-> outcome = "ok"]

\* check_parent_and_pull_commit_objects, the commit itself
PullCommitData(outcome) ==
    /\ UNCHANGED <<pushVars, lockVars, cloneVars, diffVars, auxVars>>
    /\ pc = "p_objects" /\ stack # <<>> /\ Head(stack).ph = "store"
    \* the download of a history db the remote does not have fails
    /\ IF RemoteHasDb(Head(stack).c)
       THEN Fault(outcome = "ok")
       ELSE outcome = "db" /\ UNCHANGED nFaults
    /\ LET r == pull_commit_data_objects(Head(stack).c, outcome)
       IN /\ hist' = r.hist
          /\ tree' = r.tree
          /\ commitDb' = r.commitDb
          /\ parents' = r.parents
          /\ IF r.ok
             THEN /\ stack' = Tail(stack)
                  /\ pc' = IF stack' # <<>> THEN "p_objects"
                           ELSE IF lastOp = "pull" THEN "p_entries" ELSE "p_done"
                  /\ UNCHANGED <<opId, opBranch, pending, lastResult, preRefs>>
             ELSE Finish("err")
    /\ UNCHANGED <<inited, wt, staged, versions, branches, head, nextId, lastOp,
                   lastArg, copyFailed, nWrites, nPulls>>

\* read_pulled_commit_entries: the first `limit` entries of the commit in key
\* order, all of them when limit is 0
read_pulled_commit_entries(c, limit) ==
    LET all == SelectSeq(PathOrder, LAMBDA p : tree[c][p] # 0)
    IN IF limit = 0 THEN all ELSE SubSeq(all, 1, limit)

RECURSIVE Unpack(_, _, _, _)
\* the unpack loop of pull_entries_for_commit: an entry whose working file is
\* absent or differs is copied from the version store; a copy that fails is
\* reported and skipped
Unpack(entries, c, vs, w) ==
    IF entries = <<>> THEN w
    ELSE LET p == Head(entries)
             h == tree[c][p]
             copy == (w[p] = 0 \/ HashOf(w[p]) # h) /\ vs[h] # 0
         IN Unpack(Tail(entries), c, vs, IF copy THEN [w EXCEPT ![p] = vs[h]] ELSE w)

\* pull_entries_for_commit: download the missing version files of the entries
\* (one chunk; a failed download is logged), unpack, and remove the working
\* files the commit does not hold (cleanup_removed_entries)
pull_entries_for_commit(c, limit, dlOk) ==
    LET entries == read_pulled_commit_entries(c, limit)
        missing == {tree[c][p] : p \in {q \in SeqToSet(entries) : versions[tree[c][q]] = 0}}
        \* the download of the one chunk fails when the remote lacks a file
        got == dlOk /\ \A h \in missing : RemoteHasVersion(h)
        vs == [h \in Hashes |-> IF h \in missing /\ got THEN RemoteContent(h)
                                ELSE versions[h]]
        w == Unpack(entries, c, vs, wt)
    IN [versions |-> vs,
        wt |-> [p \in PathSet |-> IF tree[c][p] = 0 THEN 0 ELSE w[p]]]

\* the pull's `then`: the entries of the pulled commit, without a limit
PullEntries(dlOk) ==
    /\ UNCHANGED <<pushVars, lockVars, cloneVars, diffVars, auxVars>>
    /\ pc = "p_entries"
    \* the outcome matters only when something is downloaded
    /\ dlOk \/ \E p \in PathSet : tree[opId][p] # 0 /\ versions[tree[opId][p]] = 0
    /\ Fault(dlOk)
    /\ LET r == pull_entries_for_commit(opId, 0, dlOk)
       IN /\ versions' = r.versions
          /\ wt' = r.wt
    /\ pc' = "p_done"
    /\ UNCHANGED <<inited, staged, hist, tree, commitDb, parents, branches, head,
                   nextId, opId, opBranch, pending, stack, lastOp, lastResult,
                   lastArg, copyFailed, preRefs, nWrites, nPulls>>

\* pull_all_commit_objects_then returns Ok
PullDone ==
    /\ UNCHANGED <<pushVars, lockVars, cloneVars, diffVars, auxVars>>
    /\ pc = "p_done"
    /\ Finish("ok")
    /\ UNCHANGED <<repoVars, nextId, lastOp, lastArg, copyFailed,
                   nWrites, nPulls, nFaults>>

\* pull_entries_for_commit_with_limit on a commit whose objects a clone has
\* pulled: pull_commit_data_objects, then the first `limit` entries
PullEntriesWithLimit(c, limit, outcome, dlOk) ==
    /\ UNCHANGED <<pushVars, lockVars, cloneVars, diffVars, auxVars>>
    /\ inited /\ pc = "idle"
    /\ nPulls < MaxPulls
    /\ nPulls' = nPulls + 1
    /\ c \in commitDb
    /\ limit <= Len(SelectSeq(PathOrder, LAMBDA p : RemoteTree(c)[p] # 0))
    /\ (outcome = "ok" \/ dlOk)
    /\ Fault(outcome = "ok" /\ dlOk)
    /\ LET r == pull_commit_data_objects(c, outcome)
       IN /\ hist' = r.hist
          /\ tree' = r.tree
          /\ commitDb' = r.commitDb
          /\ parents' = r.parents
          /\ IF r.ok
             THEN LET e == pull_entries_for_commit(c, limit, dlOk)
                  IN /\ versions' = e.versions
                     /\ wt' = e.wt
                     /\ Finish("ok")
             ELSE /\ UNCHANGED <<versions, wt>>
                  /\ Finish("err")
    /\ lastOp' = "pull_limit" /\ lastArg' = "none"
    /\ copyFailed' = FALSE
    /\ UNCHANGED <<inited, staged, branches, head, nextId, nWrites>>

\* the process dies in the middle of an operation: what is on disk stays
Crash ==
    /\ UNCHANGED <<pushVars, lockVars, cloneVars, diffVars, auxVars>>
    /\ pc # "idle"
    /\ Fault(FALSE)
    /\ Finish("crash")
    /\ UNCHANGED <<inited, wt, staged, versions, hist, tree, commitDb, parents,
                   branches, head, nextId, lastOp, lastArg, copyFailed,
                   nWrites, nPulls>>

\* ----------------------------------------------------------- Indexer::push
\* a repository holding the graph, with branch main at commit h and a clean
\* working tree, and a remote that has all of the commits K and nothing else
InitPush ==
    \E h \in PushIds, K \in SUBSET PushIds :
        /\ K \subseteq PushAncestors(h)
        /\ \A c \in K : PushAncestors(c) \subseteq K
        /\ inited = TRUE
        /\ wt = [p \in PathSet |-> IF PushTree(h)[p] = 0 THEN 0
                                   ELSE RemoteContent(PushTree(h)[p])]
        /\ staged = EmptyTree
        /\ versions = [x \in Hashes |-> RemoteContent(x)]
        /\ hist = PushIds
        /\ tree = [c \in CommitIds |-> PushTree(c)]
        /\ commitDb = PushIds
        /\ parents = [c \in CommitIds |-> SeqToSet(PushParentIds(c))]
        /\ branches = [b \in BranchNames |-> IF b = DEFAULT_BRANCH_NAME THEN h ELSE 0]
        /\ head = DEFAULT_BRANCH_NAME
        /\ nextId = MaxLocalCommits + 1
        /\ pc = "idle"
        /\ opId = 0
        /\ opBranch = "none"
        /\ pending = {}
        /\ stack = <<>>
        /\ lastOp = "none"
        /\ lastResult = "none"
        /\ lastArg = "none"
        /\ copyFailed = FALSE
        /\ preRefs = NoRefs
        /\ nWrites = 0
        /\ nPulls = 0
        /\ nFaults = 0
        /\ rCommits = K
        /\ rHist = K
        /\ rVersions = UNION {TreeHashes(PushTree(c)) : c \in K}
        /\ rBranch = IF K = {} THEN 0 ELSE CHOOSE c \in K : \A d \in K : d <= c
        /\ unsynced = <<>>
        /\ lastCommit = 0
        /\ posted = <<>>
        /\ upData = <<>>
        /\ upChunk = 0
        /\ sent = <<>>
        /\ tries = 0
        /\ sleeps = <<>>
        /\ swallowed = "none"
        /\ nNetFails = 0
        /\ rChunks = [c \in PushIds |-> <<>>]
        /\ LockFree
        /\ DiffIdle
        /\ AuxIdle
        /\ cloneOf = 0

\* what a push leaves alone: the local repository
localVars == <<inited, wt, staged, versions, hist, tree, commitDb, parents,
               branches, head, nextId, opBranch, pending, lastArg, copyFailed,
               preRefs, nWrites, nPulls, nFaults>>

\* a request whose outcome is `ok` draws on the budget of failing requests
NetFault(ok) ==
    /\ ok \/ nNetFails < MaxNetFails
    /\ nNetFails' = IF ok THEN nNetFails ELSE nNetFails + 1

\* the push returns r: its bookkeeping
PushReturn(r) ==
    /\ pc' = "idle"
    /\ opId' = 0
    /\ stack' = <<>>
    /\ lastResult' = r

\* commit.parent_ids in their order
ParentIds(c) ==
    LET ps == parents[c]
        F[S \in SUBSET ps] ==
            IF S = {} THEN <<>>
            ELSE LET m == CHOOSE x \in S : \A y \in S : x <= y
                 IN <<m>> \o F[S \ {m}]
    IN F[ps]

\* a remote that answers true as soon as it has the record and the history db
RemoteHasRecord(c) == c \in rCommits /\ c \in rHist

\* the answer of the remote to commits/<id>/is_synced: it has the record, the
\* history db and the version file of every entry of the commit
RemoteIsSynced(c) ==
    c \in rCommits /\ c \in rHist /\ TreeHashes(tree[c]) \subseteq rVersions

\* Indexer::push up to the call of rpush_missing_commit_objects
PushBegin(name, repoOk) ==
    /\ pc = "idle"
    /\ lastOp \in {"none", "push"}
    /\ lastOp' = "push"
    /\ swallowed' = "none"
    /\ posted' = <<>>
    /\ unsynced' = <<>>
    /\ lastCommit' = 0
    /\ IF ~has_branch(name)
       THEN \* local_branch_not_found
            /\ repoOk
            /\ PushReturn("err")
            /\ UNCHANGED nNetFails
       ELSE /\ NetFault(repoOk)
            /\ IF repoOk
               THEN /\ opId' = HeadCommitId
                    /\ stack' = <<[c |-> HeadCommitId, ph |-> "check", i |-> 0]>>
                    /\ pc' = "ps_walk"
                    /\ lastResult' = "running"
               ELSE \* get_by_remote_url fails or finds no repository
                    PushReturn("err")
    /\ UNCHANGED <<localVars, lockVars, cloneVars, diffVars, auxVars, rChunks, rCommits, rHist, rVersions, rBranch, upData,
                   upChunk, sent, tries, sleeps>>

\* the stack once the call on top of it has returned
Returned(st) == Tail(st)

\* rpush_missing_commit_objects, the match on commit_is_synced of the commit
\* on top of the stack; res is "answer" (the remote's answer is read), "garbled"
\* (the body cannot be parsed: Ok(false)) or "err" (the request failed)
PushCheck(res) ==
    /\ pc = "ps_walk" /\ Head(stack).ph = "check"
    /\ NetFault(res = "answer")
    /\ LET c == Head(stack).c
           synced == res = "answer" /\ RemoteIsSynced(c)
       IN IF res = "err"
          THEN /\ PushReturn("err")
               /\ UNCHANGED unsynced
          ELSE IF synced
          THEN \* "we have remote parent": the commit is queued and popped later
               /\ unsynced' = Append(unsynced, c)
               /\ stack' = Returned(stack)
               /\ pc' = IF stack' = <<>> THEN "ps_pop" ELSE "ps_walk"
               /\ UNCHANGED <<opId, lastResult>>
          ELSE IF ParentIds(c) = <<>>
          THEN \* the root commit is posted
               /\ stack' = <<[c |-> c, ph |-> "root", i |-> 0]>> \o Tail(stack)
               /\ UNCHANGED <<unsynced, pc, opId, lastResult>>
          ELSE IF ParentIds(c)[1] \notin commitDb
          THEN \* local_parent_link_broken
               /\ PushReturn("err")
               /\ UNCHANGED unsynced
          ELSE \* the first parent is walked, then the commit is posted
               /\ stack' = <<[c |-> ParentIds(c)[1], ph |-> "check", i |-> 0],
                             [c |-> c, ph |-> "post", i |-> 1]>> \o Tail(stack)
               /\ UNCHANGED <<unsynced, pc, opId, lastResult>>
    /\ UNCHANGED <<localVars, lockVars, cloneVars, diffVars, auxVars, rChunks, lastOp, rCommits, rHist, rVersions, rBranch,
                   lastCommit, posted, upData, upChunk, sent, tries, sleeps,
                   swallowed>>

\* the chunk size of post_data_to_server: 4 MiB in the code, counted here in
\* units such that a buffer of a few units spans several chunks
chunk_size == 2
\* num_retries of post_data_to_server and upload_data_to_server_in_chunks
num_retries == 3

\* the history db tarball of a commit: its size grows with the commit's
\* parents and entries
TarballOf(c) ==
    <<c>> \o ParentIds(c)
          \o SelectSeq([i \in 1..Len(PathOrder) |-> tree[c][PathOrder[i]]],
                       LAMBDA x : x # 0)

RECURSIVE HashFrom(_, _)
\* hash_buffer: a digest that depends on every byte and on its place
HashFrom(buf, i) ==
    IF i > Len(buf) THEN 7 ELSE (31 * HashFrom(buf, i + 1) + buf[i] + i) % 1009
hash_buffer(buf) == HashFrom(buf, 1)

\* chunks that start one unit early
BufferChunksOverlap(buf, size) ==
    [i \in 1..((Len(buf) + size - 1) \div size) |->
        SubSeq(buf, IF i = 1 THEN 1 ELSE (i - 1) * size,
               IF i * size < Len(buf) THEN i * size ELSE Len(buf))]

\* buffer.chunks(chunk_size): consecutive slices of `size` units, the last
\* one holding what is left
BufferChunks(buf, size) ==
    [i \in 1..((Len(buf) + size - 1) \div size) |->
        SubSeq(buf, (i - 1) * size + 1,
               IF i * size < Len(buf) THEN i * size ELSE Len(buf))]

\* the request that uploads chunk number n (from 0) of the buffer, with the
\* fields of its query string; a buffer of at most chunk_size goes as it is
UploadRequest(buf, n) ==
    IF Len(buf) > chunk_size
    THEN [kind |-> "chunk",
          chunk_num |-> n,
          total_chunks |-> Len(BufferChunks(buf, chunk_size)),
          total_size |-> Len(buf),
          hash |-> hash_buffer(buf),
          data |-> BufferChunks(buf, chunk_size)[n + 1],
          ok |-> FALSE]
    ELSE [kind |-> "single", chunk_num |-> 0, total_chunks |-> 1,
          total_size |-> Len(buf), hash |-> 0, data |-> buf, ok |-> FALSE]

\* the remote appends every chunk it is sent to what it holds
RemoteAppendChunk(store, n, data) == Append(store, [n |-> n, data |-> data])

\* the remote on upload_chunk: the chunk is written under its index, in the
\* place of a chunk it held under that index
RemotePutChunk(store, n, data) ==
    IF \E k \in 1..Len(store) : store[k].n = n
    THEN [k \in 1..Len(store) |->
             IF store[k].n = n THEN [n |-> n, data |-> data] ELSE store[k]]
    ELSE Append(store, [n |-> n, data |-> data])

RECURSIVE Reassemble(_, _)
\* the remote puts together what it holds under the indices below `total`,
\* in the order of the indices
Reassemble(store, total) ==
    IF total = 0 THEN <<>>
    ELSE LET here == SelectSeq(store, LAMBDA r : r.n = total - 1)
             F[k \in 0..Len(here)] ==
                 IF k = 0 THEN <<>> ELSE F[k - 1] \o here[k].data
         IN Reassemble(store, total - 1) \o F[Len(here)]

\* the remote has a chunk under every index below `total`, and what they
\* make together has the hash the client sent: the payload is unpacked
RemoteHasPayload(store, total, hash) ==
    /\ \A n \in 0..(total - 1) : \E k \in 1..Len(store) : store[k].n = n
    /\ hash_buffer(Reassemble(store, total)) = hash

\* post_commit_to_server, first half: create_commit_obj_on_server; then
\* post_data_to_server starts on the tarball of the history db
PostRecord(ok) ==
    /\ pc = "ps_walk" /\ Head(stack).ph \in {"post", "root"}
    /\ NetFault(ok)
    /\ IF ok
       THEN /\ rCommits' = rCommits \cup {Head(stack).c}
            /\ posted' = Append(posted, Head(stack).c)
            /\ upData' = TarballOf(Head(stack).c)
            /\ upChunk' = 0
            /\ sent' = <<UploadRequest(upData', 0)>>
            /\ tries' = 0
            /\ sleeps' = <<>>
            /\ pc' = "ps_upload"
            /\ UNCHANGED <<opId, stack, lastResult>>
       ELSE /\ PushReturn("err")
            /\ UNCHANGED <<rCommits, posted, upData, upChunk, sent, tries, sleeps>>
    /\ UNCHANGED <<localVars, lockVars, cloneVars, diffVars, auxVars, rChunks, lastOp, rHist, rVersions, rBranch, unsynced,
                   lastCommit, swallowed>>

\* the remote accepts the request req for the commit that is being posted:
\* a single upload is unpacked as it is, a chunk is stored and, once the
\* payload is whole, unpacked
RemoteAccepts(req) ==
    LET c == Head(stack).c
    IN IF req.kind = "single"
       THEN /\ rHist' = rHist \cup {c}
            /\ UNCHANGED rChunks
       ELSE /\ rChunks' = [rChunks EXCEPT
                             ![c] = RemotePutChunk(rChunks[c], req.chunk_num, req.data)]
            /\ rHist' = IF RemoteHasPayload(rChunks'[c], req.total_chunks, req.hash)
                        THEN rHist \cup {c} ELSE rHist

\* a retry loop that forgets to count the attempt that failed
UploadAttemptNoCount(ok) ==
    /\ pc = "ps_upload" /\ tries # num_retries
    /\ NetFault(ok)
    /\ IF ok
       THEN /\ sent' = [sent EXCEPT ![Len(sent)].ok = TRUE]
            /\ RemoteAccepts(sent[Len(sent)])
            /\ pc' = "ps_up_ok"
            /\ UNCHANGED <<tries, sleeps>>
       ELSE /\ sleeps' = Append(sleeps, (tries + 1) * (tries + 1))
            /\ UNCHANGED <<sent, pc, tries, rChunks, rHist>>
    /\ UNCHANGED <<localVars, lockVars, cloneVars, diffVars, auxVars, lastOp, lastResult, opId,
                   stack, rCommits, rVersions, rBranch, unsynced, lastCommit,
                   posted, upData, upChunk, swallowed>>

\* one turn of the loop of upload_single_tarball_to_server_with_retry and of
\* upload_data_chunk_to_server_with_retry: an attempt that succeeds returns
\* Ok, one that fails is counted and followed by a sleep of total_tries squared
UploadAttempt(ok) ==
    /\ pc = "ps_upload" /\ tries # num_retries
    /\ NetFault(ok)
    /\ IF ok
       THEN /\ sent' = [sent EXCEPT ![Len(sent)].ok = TRUE]
            /\ RemoteAccepts(sent[Len(sent)])
            /\ pc' = "ps_up_ok"
            /\ UNCHANGED <<tries, sleeps>>
       ELSE /\ tries' = tries + 1
            /\ sleeps' = Append(sleeps, tries' * tries')
            /\ UNCHANGED <<sent, pc, rChunks, rHist>>
    /\ UNCHANGED <<localVars, lockVars, cloneVars, diffVars, auxVars, lastOp, lastResult, opId,
                   stack, rCommits, rVersions, rBranch, unsynced, lastCommit,
                   posted, upData, upChunk, swallowed>>

\* the loop ends with the budget used up: "Upload retry failed."
UploadGiveUp ==
    /\ pc = "ps_upload" /\ tries = num_retries
    /\ pc' = "ps_up_err"
    /\ UNCHANGED <<localVars, lockVars, cloneVars, diffVars, auxVars, rChunks, lastOp, lastResult, opId, stack, rCommits, rHist,
                   rVersions, rBranch, unsynced, lastCommit, posted, upData,
                   upChunk, sent, tries, sleeps, swallowed, nNetFails>>

\* rpush_missing_commit_objects after post_commit_to_server returned Ok for
\* the commit on top of the stack: it is queued, and the next parent is
\* walked or the call returns
PostDone ==
    LET f == Head(stack)
    IN /\ unsynced' = Append(unsynced, f.c)
       /\ IF f.ph = "post" /\ f.i < Len(ParentIds(f.c))
          THEN IF ParentIds(f.c)[f.i + 1] \notin commitDb
               THEN PushReturn("err")
               ELSE /\ stack' = <<[c |-> ParentIds(f.c)[f.i + 1], ph |-> "check", i |-> 0],
                                  [c |-> f.c, ph |-> "post", i |-> f.i + 1]>>
                                \o Tail(stack)
                    /\ pc' = "ps_walk"
                    /\ UNCHANGED <<opId, lastResult>>
          ELSE /\ stack' = Returned(stack)
               /\ pc' = IF stack' = <<>> THEN "ps_pop" ELSE "ps_walk"
               /\ UNCHANGED <<opId, lastResult>>

\* the caller of a retry loop: post_data_to_server returns the error of the
\* single upload; upload_data_to_server_in_chunks logs the error of a chunk,
\* goes on with the next chunk and returns Ok
UploadReturn ==
    /\ pc \in {"ps_up_ok", "ps_up_err"}
    /\ IF Len(upData) <= chunk_size
       THEN IF pc = "ps_up_ok"
            THEN /\ PostDone
                 /\ UNCHANGED <<upChunk, sent, tries, sleeps, swallowed>>
            ELSE /\ PushReturn("err")
                 /\ UNCHANGED <<unsynced, upChunk, sent, tries, sleeps,
                                swallowed>>
       ELSE /\ swallowed' = IF pc = "ps_up_err" THEN "chunk" ELSE swallowed
            /\ IF upChunk + 1 < Len(BufferChunks(upData, chunk_size))
               THEN /\ upChunk' = upChunk + 1
                    /\ sent' = Append(sent, UploadRequest(upData, upChunk + 1))
                    /\ tries' = 0
                    /\ sleeps' = <<>>
                    /\ pc' = "ps_upload"
                    /\ UNCHANGED <<unsynced, opId, stack, lastResult>>
               ELSE /\ PostDone
                    /\ UNCHANGED <<upChunk, sent, tries, sleeps>>
    /\ UNCHANGED <<localVars, lockVars, cloneVars, diffVars, auxVars, rChunks, lastOp, rCommits,
                   rHist, rVersions, rBranch, lastCommit, posted, upData,
                   nNetFails>>

\* Indexer::push: last_commit = unsynced_commits.pop_front().unwrap()
PushPop ==
    /\ pc = "ps_pop"
    /\ lastCommit' = Head(unsynced)
    /\ unsynced' = Tail(unsynced)
    /\ pc' = IF unsynced' = <<>> THEN "ps_branch" ELSE "ps_entries"
    /\ UNCHANGED <<localVars, lockVars, cloneVars, diffVars, auxVars, rChunks, lastOp, lastResult, opId, stack, rCommits, rHist,
                   rVersions, rBranch, posted, upData, upChunk, sent, tries,
                   sleeps, swallowed, nNetFails>>

\* read_unsynced_entries: the paths of this commit that the last one does not
\* hold with the same hash
read_unsynced_entries(last, this) ==
    {p \in PathSet : tree[this][p] # 0 /\ tree[this][p] # tree[last][p]}

\* rpush_entries, one turn of its loop, with push_entries: the version files
\* of the entries go up in one tarball; a failed upload is printed only
PushEntries(ok) ==
    /\ pc = "ps_entries"
    /\ LET commit == Head(unsynced)
           entries == read_unsynced_entries(lastCommit, commit)
       IN /\ ok \/ entries # {}
          /\ NetFault(ok)
          /\ rVersions' = IF ok THEN rVersions \cup {tree[commit][p] : p \in entries}
                          ELSE rVersions
          /\ swallowed' = IF ok THEN swallowed ELSE "entries"
          /\ lastCommit' = commit
    /\ unsynced' = Tail(unsynced)
    /\ pc' = IF unsynced' = <<>> THEN "ps_branch" ELSE "ps_entries"
    /\ UNCHANGED <<localVars, lockVars, cloneVars, diffVars, auxVars, rChunks, lastOp, lastResult, opId, stack, rCommits, rHist,
                   rBranch, posted, upData, upChunk, sent, tries, sleeps>>

\* Indexer::push, the end: branches::update moves the remote branch to the
\* head commit
PushBranch(ok) ==
    /\ pc = "ps_branch"
    /\ NetFault(ok)
    /\ rBranch' = IF ok THEN opId ELSE rBranch
    /\ PushReturn(IF ok THEN "ok" ELSE "err")
    /\ UNCHANGED <<localVars, lockVars, cloneVars, diffVars, auxVars, rChunks, lastOp, rCommits, rHist, rVersions, unsynced,
                   lastCommit, posted, upData, upChunk, sent, tries, sleeps,
                   swallowed>>

\* a push of a branch of the repository to the remote
NextPush ==
    \/ \E name \in BranchNames, repoOk \in BOOLEAN : PushBegin(name, repoOk)
    \/ \E res \in {"answer", "garbled", "err"} : PushCheck(res)
    \/ \E ok \in BOOLEAN : PostRecord(ok)
    \/ \E ok \in BOOLEAN : UploadAttempt(ok)
    \/ UploadGiveUp
    \/ UploadReturn
    \/ PushPop
    \/ \E ok \in BOOLEAN : PushEntries(ok)
    \/ \E ok \in BOOLEAN : PushBranch(ok)

SpecPush == InitPush /\ [][NextPush]_vars

\* the requests of a push are answered or time out, and the push goes on
FairSpecPush == SpecPush /\ WF_vars(NextPush)

\* ------------------------------------------- the branch lock of the remote
\* what the requests of other sessions leave alone: the local repository and
\* the push that may be running
clientVars == <<localVars, diffVars, cloneVars, auxVars, pc, opId, stack, lastOp, lastResult,
                unsynced, lastCommit, posted, upData, upChunk, sent, tries,
                sleeps, swallowed, nNetFails, rChunks>>

\* a lock that keeps no commit id in the lock file
BranchLockNoHead ==
    /\ ~rLock
    /\ rLock' = TRUE
    /\ rLockHead' = 0
    /\ UNCHANGED <<clientVars, nLanded, rCommits, rHist, rVersions, rBranch>>

\* api::remote::branches::lock by another session, answered Ok: the remote
\* creates the lock file of the branch and keeps in it the commit the branch
\* is at; on a branch that is locked the request is refused and nothing
\* changes
BranchLock ==
    /\ ~rLock
    /\ rBranch # 0
    /\ rLock' = TRUE
    /\ rLockHead' = rBranch
    /\ UNCHANGED <<clientVars, nLanded, rCommits, rHist, rVersions, rBranch>>

\* api::remote::branches::unlock: the remote removes the lock file
BranchUnlock ==
    /\ rLock
    /\ rLock' = FALSE
    /\ rLockHead' = 0
    /\ UNCHANGED <<clientVars, nLanded, rCommits, rHist, rVersions, rBranch>>

\* the answer of the remote to branches/<name>/latest_synced_commit
latest_synced_commit == IF rLock THEN rLockHead ELSE rBranch

\* controllers::stager::commit, the request of a user of remote staging who
\* has staged a file: the branch is looked up, remote_dir_stager::commit
\* makes the commit on it, and the answer is resource_created; without the
\* branch the answer is 404. The lock of the branch is not looked at.
StagerCommit ==
    /\ nLanded < MaxLanded
    /\ nLanded' = nLanded + 1
    /\ IF rBranch = 0
       THEN UNCHANGED <<rCommits, rHist, rVersions, rBranch>>
       ELSE LET c == 30 + nLanded'
            IN /\ rCommits' = rCommits \cup {c}
               /\ rHist' = rHist \cup {c}
               /\ rVersions' = rVersions \cup {200 + c}
               /\ rBranch' = c
    /\ UNCHANGED <<clientVars, rLock, rLockHead>>

\* pushes by this client, and the requests of other sessions to the remote
NextLock ==
    \/ \E name \in BranchNames, repoOk \in BOOLEAN : PushBegin(name, repoOk)
    \/ \E res \in {"answer", "garbled", "err"} : PushCheck(res)
    \/ \E ok \in BOOLEAN : PostRecord(ok)
    \/ \E ok \in BOOLEAN : UploadAttempt(ok)
    \/ UploadGiveUp
    \/ UploadReturn
    \/ PushPop
    \/ \E ok \in BOOLEAN : PushEntries(ok)
    \/ \E ok \in BOOLEAN : PushBranch(ok)
    \/ BranchLock
    \/ BranchUnlock
    \/ StagerCommit

SpecLock == InitPush /\ [][NextLock]_vars

\* ------------------------------------------------ push, then pull elsewhere
\* once a push has returned Ok, a second local repository is set up for the
\* same remote with nothing in it; the model goes on with that repository,
\* and keeps the commit that was pushed
CloneEmpty ==
    /\ pc = "idle" /\ lastOp = "push" /\ lastResult = "ok"
    /\ cloneOf = 0
    /\ cloneOf' = HeadCommitId
    /\ inited' = TRUE
    /\ wt' = EmptyTree
    /\ staged' = EmptyTree
    /\ versions' = [h \in Hashes |-> 0]
    /\ hist' = {}
    /\ tree' = [c \in CommitIds |-> EmptyTree]
    /\ commitDb' = {}
    /\ parents' = [c \in CommitIds |-> {}]
    /\ branches' = [b \in BranchNames |-> 0]
    /\ head' = "none"
    /\ lastOp' = "clone" /\ lastArg' = "none"
    /\ UNCHANGED <<nextId, pc, opId, opBranch, pending, stack, lastResult,
                   copyFailed, preRefs, nWrites, nPulls, nFaults, pushVars,
                   lockVars, diffVars, auxVars>>

\* Indexer::pull of the pushed branch in the empty clone
ClonePull(got) ==
    /\ cloneOf # 0 /\ lastOp = "clone"
    /\ PullBegin("pull", DEFAULT_BRANCH_NAME, got)

\* a push, then a pull of the pushed branch into an empty clone
NextRoundTrip ==
    \/ NextPush
    \/ CloneEmpty
    \/ \E got \in {"some", "none", "err"} : ClonePull(got)
    \/ PullSetHead
    \/ \E ok \in BOOLEAN : PullSetBranch(ok)
    \/ \E ok \in BOOLEAN : PullCheckParent(ok)
    \/ \E outcome \in {"ok", "db", "get", "add"} : PullCommitData(outcome)
    \/ \E dlOk \in BOOLEAN : PullEntries(dlOk)
    \/ PullDone

SpecRoundTrip == InitPush /\ [][NextRoundTrip]_vars

\* ---------------------------------------- api::local::compare::join_compare
DIFF_STATUS_COL == ".oxen.diff.status"
DIFF_STATUS_ADDED == "added"
DIFF_STATUS_REMOVED == "removed"
DIFF_STATUS_MODIFIED == "modified"
DIFF_STATUS_UNCHANGED == "unchanged"

\* a column name: format!("{}.left", name) is Col(name, "left"),
\* format!("{}.right", name) is Col(name, "right"), the bare name Col(name, "")
Col(name, side) == [name |-> name, side |-> side]

\* the schema diff of the two compared files: "city" is only in the right
\* file, "zip" only in the left one, the others are in both
SchemaDiffs ==
    {[added_cols |-> {"city"}, removed_cols |-> {"zip"},
      unchanged_cols |-> {"id", "name", "age"}]}
\* the arguments compare is called with; "dob" is a column of neither file
KeyArgs == {<<>>, <<"id">>, <<"id", "name">>}
TargetArgs == {<<>>, <<"age">>, <<"city", "age">>, <<"zip">>, <<"dob">>}
DisplayArgs ==
    {<<>>, <<Col("name", "right"), Col("zip", "right"), Col("zip", "left"),
             Col("name", "")>>}
\* a frame: the _targets_hash of the row of every value of the first key
\* column, Null where the frame has no such row.  The rows of a frame differ
\* in their keys, so that _keys_hash joins at most one row with one row
Frames == [KeyVals -> TargetHashes \cup {Null}]
DiffInputs ==
    {[left |-> l, right |-> r, keys |-> k, targets |-> t, display |-> d,
      added_cols |-> sd.added_cols, removed_cols |-> sd.removed_cols,
      unchanged_cols |-> sd.unchanged_cols] :
        l \in Frames, r \in Frames, k \in KeyArgs, t \in TargetArgs,
        d \in DisplayArgs, sd \in SchemaDiffs}

\* one column for every target: the left one of a target that is in both files
TargetColumnsOneSide(t, sd) ==
    IF t \in sd.added_cols THEN <<Col(t, "right")>>
    ELSE <<Col(t, "left")>>

\* get_output_columns, the body of the loop over the targets
TargetColumns(t, sd) ==
    IF t \in sd.added_cols THEN <<Col(t, "right")>>
    ELSE IF t \in sd.removed_cols THEN <<Col(t, "left")>>
    ELSE <<Col(t, "left"), Col(t, "right")>>

RECURSIVE AllTargetColumns(_, _)
\* get_output_columns, the loop over the targets
AllTargetColumns(targets, sd) ==
    IF targets = <<>> THEN <<>>
    ELSE TargetColumns(Head(targets), sd) \o AllTargetColumns(Tail(targets), sd)

\* get_output_columns, the test of the loop over the display columns
DisplayKept(d, sd) ==
    \/ d.side = "left" /\ d.name \in sd.removed_cols \cup sd.unchanged_cols
    \/ d.side = "right" /\ d.name \in sd.added_cols \cup sd.unchanged_cols

get_output_columns(keys, targets, display, sd) ==
    [i \in 1..Len(keys) |-> Col(keys[i], "")]
    \o AllTargetColumns(targets, sd)
    \o SelectSeq(display, LAMBDA d : DisplayKept(d, sd))
    \o <<Col(DIFF_STATUS_COL, "")>>

\* join_hashed_dfs, the rows: the outer join on _keys_hash has one row for
\* every key either frame has, with Null in the cells of the missing side
join_hashed_dfs(left, right) ==
    [k \in {x \in KeyVals : left[x] # Null \/ right[x] # Null} |->
        [key_left |-> IF left[k] # Null THEN k ELSE Null,
         key_right |-> IF right[k] # Null THEN k ELSE Null,
         target_hash_left |-> left[k],
         target_hash_right |-> right[k]]]

\* join_hashed_dfs, the columns after the renaming, and the key columns and
\* the status column that compare adds
JoinedColumns(keys, sd) ==
    {Col(c, "left") : c \in sd.removed_cols \cup sd.unchanged_cols}
    \cup {Col(c, "right") : c \in sd.added_cols \cup sd.unchanged_cols}
    \cup {Col(keys[i], "") : i \in 1..Len(keys)}
    \cup {Col(DIFF_STATUS_COL, "")}

test_function(key_left, key_right, target_hash_left, target_hash_right, has_targets) ==
    IF key_left = Null THEN DIFF_STATUS_ADDED
    ELSE IF key_right = Null THEN DIFF_STATUS_REMOVED
    ELSE IF ~has_targets THEN DIFF_STATUS_UNCHANGED
    ELSE IF target_hash_left # target_hash_right THEN DIFF_STATUS_MODIFIED
    ELSE DIFF_STATUS_UNCHANGED

RECURSIVE SortedByKey(_, _)
\* the rows of the keys K in ascending order of the key, Null first
SortedByKey(K, status) ==
    IF K = {} THEN <<>>
    ELSE LET k == CHOOSE x \in K : \A y \in K : x <= y
         IN <<[key |-> k, status |-> status[k]]>> \o SortedByKey(K \ {k}, status)

\* compare: the check of the arguments, the output columns, the join, the
\* status of every row, the filter, the coalesced keys, the sort, the select.
\* keys[0] of an empty vector panics
compare(in) ==
    LET sd == [added_cols |-> in.added_cols, removed_cols |-> in.removed_cols,
               unchanged_cols |-> in.unchanged_cols]
        output_columns == get_output_columns(in.keys, in.targets, in.display, sd)
        joined == join_hashed_dfs(in.left, in.right)
        status == [k \in DOMAIN joined |->
                     test_function(joined[k].key_left, joined[k].key_right,
                                   joined[k].target_hash_left,
                                   joined[k].target_hash_right,
                                   in.targets # <<>>)]
        kept == {k \in DOMAIN joined : status[k] # DIFF_STATUS_UNCHANGED}
        \* DataFrame::select fails on a column the frame does not have and
        \* on a column named twice
        selectOk ==
            /\ {output_columns[i] : i \in 1..Len(output_columns)}
                   \subseteq JoinedColumns(in.keys, sd)
            /\ \A i, j \in 1..Len(output_columns) :
                   output_columns[i] = output_columns[j] => i = j
    IN IF in.targets # <<>> /\ in.keys = <<>>
       THEN [outcome |-> "err", columns |-> <<>>, rows |-> <<>>]
       ELSE IF in.keys = <<>>
       THEN [outcome |-> "panic", columns |-> <<>>, rows |-> <<>>]
       ELSE IF ~selectOk
       THEN [outcome |-> "err", columns |-> <<>>, rows |-> <<>>]
       ELSE [outcome |-> "ok", columns |-> output_columns,
             rows |-> SortedByKey(kept, status)]

\* one call of compare
Compare ==
    /\ diffOut = NoDiffOutput
    /\ diffIn \in DiffInputs
    /\ diffOut' = compare(diffIn)
    /\ UNCHANGED <<repoVars, nextId, pc, opId, opBranch, pending, stack, lastOp,
                   lastResult, lastArg, copyFailed, preRefs, nWrites, nPulls,
                   nFaults, pushVars, lockVars, cloneVars, auxVars, diffIn>>

InitDiff ==
    /\ IdleRepo
    /\ AuxIdle
    /\ diffIn \in DiffInputs
    /\ diffOut = NoDiffOutput

NextDiff == Compare

SpecDiff == InitDiff /\ [][NextDiff]_vars

\* the steps of the commit pipeline, which init and commit run
CommitSteps ==
    \/ \E p \in PathSet, copyOk \in BOOLEAN, tsOk \in BOOLEAN : CommitBackup(p, copyOk, tsOk)
    \/ CommitWriteTree
    \/ \E ok \in BOOLEAN : CommitRecord(ok)
    \/ \E ok \in BOOLEAN : CommitBranch(ok)
    \/ CommitUnstage

\* the steps of a pull
PullSteps ==
    \/ \E kind \in {"pull", "pull_objects"}, name \in BranchNames,
          got \in {"some", "none", "err"} : PullBegin(kind, name, got)
    \/ PullSetHead
    \/ \E ok \in BOOLEAN : PullSetBranch(ok)
    \/ \E ok \in BOOLEAN : PullCheckParent(ok)
    \/ \E outcome \in {"ok", "db", "get", "add"} : PullCommitData(outcome)
    \/ \E dlOk \in BOOLEAN : PullEntries(dlOk)
    \/ PullDone
    \/ \E c \in RemoteIds, limit \in Limits, outcome \in {"ok", "db", "get", "add"},
          dlOk \in BOOLEAN : PullEntriesWithLimit(c, limit, outcome, dlOk)

\* the commands of command.rs on a local repository, the user's edits of the
\* working tree between them, and the faults of the environment
Next ==
    \/ CmdInit
    \/ \E p \in PathSet, b \in Bytes \cup {0} : WriteFile(p, b)
    \/ \E p \in PathSet : CmdAdd(p)
    \/ CommitBegin
    \/ CommitSteps
    \/ \E name \in BranchNames : CmdCreateBranch(name)
    \/ \E name \in BranchNames : CmdCreateCheckoutBranch(name)
    \/ \E name \in BranchNames : CmdCheckout(name)
    \/ Crash

Spec == Init /\ [][Next]_vars

\* a repository that is initialised, may get a second branch, and pulls
NextPull ==
    \/ CmdInit
    \/ CommitSteps
    \/ \E name \in BranchNames : CmdCreateCheckoutBranch(name)
    \/ PullSteps

SpecPull == Init /\ [][NextPull]_vars

\* ------------------------------------------------------------ model::Schema
\* how many fields a schema has at most
MaxFields == 2
\* the names and the dtypes of the columns
FieldNames == {"a", "b", "astrb"}
FieldDtypes == {"str", "i64"}
Fields == [name : FieldNames, dtype : FieldDtypes]
FieldLists == UNION {[1..n -> Fields] : n \in 0..MaxFields}
\* the name a schema is made with; "" stands for from_fields, which gives none
SchemaNames == {"", "s"}

\* a digest of a string buffer that differs whenever the buffers differ
StrDigest(buf) == <<"hash", buf>>

RECURSIVE JoinFields(_)
\* hash_fields, the buffer: name and dtype of every field, one after the
\* other with nothing in between
JoinFields(fields) ==
    IF fields = <<>> THEN ""
    ELSE Head(fields).name \o Head(fields).dtype \o JoinFields(Tail(fields))

hash_fields(fields) == StrDigest(JoinFields(fields))

\* Schema::new and Schema::from_fields
SchemaFrom(in) == [name |-> in.name, hash |-> hash_fields(in.fields),
                   fields |-> in.fields]

\* two schemas are made
MakeSchemas ==
    /\ schemaOut = <<>> /\ schemaIn # <<>>
    /\ schemaOut' = <<SchemaFrom(schemaIn[1]), SchemaFrom(schemaIn[2])>>
    /\ UNCHANGED <<sideVars, storeVars, queueVars, schemaIn>>

InitSchema ==
    /\ IdleRepo /\ DiffIdle /\ StoreIdle /\ QueueIdle /\ StageIdle /\ CreateIdle
    /\ schemaIn \in [1..2 -> [name : SchemaNames, fields : FieldLists]]
    /\ schemaOut = <<>>

NextSchema == MakeSchemas

SpecSchema == InitSchema /\ [][NextSchema]_vars

\* ------------------------------------------------- core::index::versioner
\* the bytes a complete version file holds
FullBytes(p) == IF p = "entry" THEN <<1, 2>> ELSE <<3, 4>>

\* the file after `byte` is written at offset `pos` by a handle of its own:
\* the bytes before a write beyond the end of the file read as 0
WriteAt(file, pos, byte) ==
    [i \in 1..(IF Len(file) > pos THEN Len(file) ELSE pos + 1) |->
        IF i = pos + 1 THEN byte
        ELSE IF i <= Len(file) THEN file[i] ELSE 0]

\* util::hasher::hash_file_contents: the digest of the bytes of the file,
\* an error when the bytes cannot be read
hash_file_contents(p) ==
    IF p \in vUnreadable THEN [ok |-> FALSE, hash |-> <<>>]
    ELSE [ok |-> TRUE, hash |-> StrDigest(vstore[p].bytes)]

\* the hash the commit entry records for its file
EntryHash == StrDigest(FullBytes("entry"))

\* a file that cannot be hashed counts as not different
path_hash_is_different ==
    IF hash_file_contents("entry").ok
    THEN hash_file_contents("entry").hash # EntryHash
    ELSE FALSE

\* should_copy_entry of the version file of the entry
ShouldCopyEntryFile == ~vstore["entry"].exists \/ path_hash_is_different

\* backup_file of writer w: should_copy_entry, then util::fs::copy_mkdir,
\* which is not in the sources and is taken to put the complete file in
\* place in one step; a copy that fails is logged and the backup goes on;
\* backup_file returns Ok(()) and the writer goes on to the schema
BackupFile(w, ok) ==
    /\ wpc[w] = "idle"
    /\ ok \/ ShouldCopyEntryFile
    /\ vstore' = IF ShouldCopyEntryFile /\ ok
                 THEN [vstore EXCEPT !["entry"] = FileOf(FullBytes("entry"))]
                 ELSE vstore
    /\ wpc' = [wpc EXCEPT ![w] = "schema"]
    /\ UNCHANGED <<sideVars, schemaVars, queueVars, wpos, vUnreadable>>

\* backup_schema of writer w: should_copy_schema looks whether the path exists
BackupSchemaCheck(w) ==
    /\ wpc[w] = "schema"
    /\ wpc' = [wpc EXCEPT ![w] = IF ~vstore["schema"].exists THEN "create"
                                 ELSE "done"]
    /\ UNCHANGED <<sideVars, schemaVars, queueVars, vstore, wpos, vUnreadable>>

\* backup_schema: std::fs::File::create(&version_path) makes the file, or
\* truncates the one that is there
BackupSchemaCreate(w, ok) ==
    /\ wpc[w] = "create"
    /\ IF ok
       THEN /\ vstore' = [vstore EXCEPT !["schema"] = FileOf(<<>>)]
            /\ wpc' = [wpc EXCEPT ![w] = "write"]
       ELSE /\ wpc' = [wpc EXCEPT ![w] = "failed"]
            /\ UNCHANGED vstore
    /\ UNCHANGED <<sideVars, schemaVars, queueVars, wpos, vUnreadable>>

\* backup_schema: file.write_all(schema_json.as_bytes()), byte after byte
BackupSchemaWrite(w) ==
    /\ wpc[w] = "write"
    /\ vstore["schema"].exists
    /\ vstore' = [vstore EXCEPT !["schema"].bytes =
                    WriteAt(@, wpos[w], FullBytes("schema")[wpos[w] + 1])]
    /\ wpos' = [wpos EXCEPT ![w] = @ + 1]
    /\ wpc' = [wpc EXCEPT ![w] = IF wpos'[w] = Len(FullBytes("schema"))
                                 THEN "done" ELSE "write"]
    /\ UNCHANGED <<sideVars, schemaVars, queueVars, vUnreadable>>

\* the process of writer w dies in the middle of its backup
WriterCrash(w) ==
    /\ wpc[w] \in {"schema", "create", "write"}
    /\ wpc' = [wpc EXCEPT ![w] = "crashed"]
    /\ UNCHANGED <<sideVars, schemaVars, queueVars, vstore, wpos, vUnreadable>>

\* the version file of the entry may be there from an earlier commit, and
\* a file that is there may be one whose bytes cannot be read
InitStore ==
    /\ IdleRepo /\ DiffIdle /\ SchemaIdle /\ QueueIdle /\ StageIdle /\ CreateIdle
    /\ wpc = [w \in Writers |-> "idle"]
    /\ wpos = [w \in Writers |-> 0]
    /\ \E f \in {NoFile, FileOf(FullBytes("entry"))} :
          vstore = [p \in VersionPaths |-> IF p = "entry" THEN f ELSE NoFile]
    /\ vUnreadable \in IF vstore["entry"].exists THEN {{}, {"entry"}} ELSE {{}}

NextStore ==
    \E w \in Writers :
        \/ \E ok \in BOOLEAN : BackupFile(w, ok)
        \/ BackupSchemaCheck(w)
        \/ \E ok \in BOOLEAN : BackupSchemaCreate(w, ok)
        \/ BackupSchemaWrite(w)
        \/ WriterCrash(w)

SpecStore == InitStore /\ [][NextStore]_vars

\* --------------------------------------------- server main.rs: poll_queue
\* a controller puts the next task on the queue (TaskQueue::push)
Enqueue ==
    /\ nEnq < MaxTasks
    /\ nEnq' = nEnq + 1
    /\ tqQueue' = Append(tqQueue, nEnq + 1)
    /\ UNCHANGED <<sideVars, schemaVars, storeVars, tqKind, tqPc, tqCur, tqRuns,
                   tqStatus>>

\* poll_queue, queue.pop(): Some(task) or None
PollPop ==
    /\ tqPc = "pop"
    /\ IF tqQueue # <<>>
       THEN /\ tqCur' = Head(tqQueue)
            /\ tqQueue' = Tail(tqQueue)
            /\ tqPc' = "run"
       ELSE /\ tqPc' = "sleep"
            /\ UNCHANGED <<tqCur, tqQueue>>
    /\ UNCHANGED <<sideVars, schemaVars, storeVars, tqKind, tqRuns, tqStatus,
                   nEnq>>

\* poll_queue, the sleep of one second after None
PollSleep ==
    /\ tqPc = "sleep"
    /\ tqPc' = "pop"
    /\ UNCHANGED <<sideVars, schemaVars, storeVars, tqKind, tqQueue, tqCur,
                   tqRuns, tqStatus, nEnq>>

\* a poller that runs the task without catch_unwind: a panic ends the poller
PollRunNoCatch(panics) ==
    /\ tqPc = "run"
    /\ tqRuns' = [tqRuns EXCEPT ![tqCur] = @ + 1]
    /\ IF panics
       THEN /\ tqStatus' = [tqStatus EXCEPT ![tqCur] = "panicked"]
            /\ tqPc' = "dead"
            /\ UNCHANGED tqCur
       ELSE /\ tqPc' = "pop"
            /\ tqCur' = 0
            /\ UNCHANGED tqStatus
    /\ UNCHANGED <<sideVars, schemaVars, storeVars, tqKind, tqQueue, nEnq>>

\* poll_queue, std::panic::catch_unwind(|| task.run()): PostPushComplete::run
\* returns (it logs the error of a cacher) or panics
PollRun(panics) ==
    /\ tqPc = "run"
    /\ tqRuns' = [tqRuns EXCEPT ![tqCur] = @ + 1]
    /\ IF panics
       THEN /\ tqStatus' = [tqStatus EXCEPT ![tqCur] = "panicked"]
            /\ tqPc' = "mark"
            /\ UNCHANGED tqCur
       ELSE /\ tqPc' = "pop"
            /\ tqCur' = 0
            /\ UNCHANGED tqStatus
    /\ UNCHANGED <<sideVars, schemaVars, storeVars, tqKind, tqQueue, nEnq>>

\* poll_queue, after a panic: commit_cacher::set_all_cachers_status(repo,
\* commit, failed), then the loop goes on
PollMarkFailed ==
    /\ tqPc = "mark"
    /\ tqStatus' = [tqStatus EXCEPT ![tqCur] = "failed"]
    /\ tqPc' = "pop"
    /\ tqCur' = 0
    /\ UNCHANGED <<sideVars, schemaVars, storeVars, tqKind, tqQueue, tqRuns,
                   nEnq>>

\* init_queue: the Redis queue when the connection is there, else the queue
\* in memory
InitQueue ==
    /\ IdleRepo /\ DiffIdle /\ SchemaIdle /\ StoreIdle /\ StageIdle /\ CreateIdle
    /\ tqKind \in {"redis", "memory"}
    /\ QueueEmpty

NextQueue ==
    \/ Enqueue
    \/ PollPop
    \/ PollSleep
    \/ \E panics \in BOOLEAN : PollRun(panics)
    \/ PollMarkFailed

SpecQueue == InitQueue /\ [][NextQueue]_vars

\* the poller is a spawned task of its own that is always scheduled again
FairSpecQueue ==
    /\ SpecQueue
    /\ WF_vars(PollPop)
    /\ WF_vars(PollSleep)
    /\ WF_vars(\E panics \in BOOLEAN : PollRun(panics))
    /\ WF_vars(PollMarkFailed)

\* ------------------------------------- server controllers::stager (rows)
\* The stores behind the handlers (remote_dir_stager, remote_df_stager and
\* mod_stager) are not in the sources: every handler hands them the branch
\* and the identifier of the request, and they are taken to keep one staged
\* store per (branch, identifier), indexed on the head the branch had then.
SessionKeyPerBranch(b, u) == <<b, "u1">>

\* the staged store the stagers open for a branch and an identifier
SessionKey(b, u) == <<b, u>>

Session(b, u) == sgStore[SessionKey(b, u)]

NeverStale(b, u) == FALSE

\* the store was indexed on a head that is no longer the head of the branch
IsStale(b, u) == Session(b, u).indexed /\ Session(b, u).base # sgHead[b]

\* the rows of the staged dataframe
StagedRows(s) == {r \in RowIds : s.rows[r] \in {"unchanged", "added", "modified"}}

\* the Added/Modified/Removed projection of the staged store
StagedDiff(s) == {<<r, s.rows[r]>> : r \in {x \in RowIds : s.rows[x] \in {"added", "modified", "removed"}}}

\* the smallest row id the staged store does not hold
FreshRow(s) == CHOOSE r \in RowIds : s.rows[r] = "absent" /\ \A x \in RowIds : s.rows[x] = "absent" => r <= x

Respond(op, b, u, status, view) ==
    sgResp' = [op |-> op, branch |-> b, identifier |-> u, status |-> status, view |-> view]

\* what a request that edits the rows of a staged store answers before it
\* looks at the row: "ok" when the edit can go on
EditStatus(b, u) ==
    IF ~Session(b, u).indexed THEN "not indexed"
    ELSE IF IsStale(b, u) THEN "stale base"
    ELSE "ok"

\* a request that fails changes nothing but the response
Refuse(op, b, u, status) ==
    /\ Respond(op, b, u, status, {})
    /\ UNCHANGED <<sgHead, sgFile, sgStore, nStageOps>>

\* an edit that puts row r of the staged store into status st
StageRow(op, b, u, r, st) ==
    /\ nStageOps < MaxStageOps
    /\ sgStore' = [sgStore EXCEPT ![SessionKey(b, u)].rows[r] = st]
    /\ nStageOps' = nStageOps + 1
    /\ Respond(op, b, u, "ok", {r})
    /\ UNCHANGED <<sgHead, sgFile>>

\* index_dataset: the committed file of the head of the branch is copied
\* into the staged store of (branch, identifier)
index_dataset(b, u) ==
    /\ nStageOps < MaxStageOps
    /\ sgStore' = [sgStore EXCEPT ![SessionKey(b, u)] =
            [indexed |-> TRUE, base |-> sgHead[b],
             rows |-> [r \in RowIds |-> IF r \in sgFile[b] THEN "unchanged" ELSE "absent"]]]
    /\ nStageOps' = nStageOps + 1
    /\ Respond("index", b, u, "ok", {})
    /\ UNCHANGED <<sgHead, sgFile, sideMainVars>>

\* unindex_dataset: the staged store of (branch, identifier) is dropped
unindex_dataset(b, u) ==
    /\ nStageOps < MaxStageOps
    /\ Session(b, u).indexed
    /\ sgStore' = [sgStore EXCEPT ![SessionKey(b, u)] = NoSession]
    /\ nStageOps' = nStageOps + 1
    /\ Respond("unindex", b, u, "ok", {})
    /\ UNCHANGED <<sgHead, sgFile, sideMainVars>>

\* df_add_row: mod_stager::add_row appends a row with a fresh row id
df_add_row(b, u) ==
    /\ IF EditStatus(b, u) # "ok" THEN Refuse("append", b, u, EditStatus(b, u))
       ELSE /\ \E r \in RowIds : Session(b, u).rows[r] = "absent"
            /\ StageRow("append", b, u, FreshRow(Session(b, u)), "added")
    /\ UNCHANGED sideMainVars

\* df_modify_row: mod_stager::modify_row updates a row of the staged store
df_modify_row(b, u, r) ==
    /\ IF EditStatus(b, u) # "ok" THEN Refuse("modify", b, u, EditStatus(b, u))
       ELSE IF r \notin StagedRows(Session(b, u)) THEN Refuse("modify", b, u, "not found")
       ELSE StageRow("modify", b, u, r,
                     IF Session(b, u).rows[r] = "added" THEN "added" ELSE "modified")
    /\ UNCHANGED sideMainVars

\* df_delete_row: mod_stager::delete_row flags the row as removed; a row
\* that was only staged is dropped
df_delete_row(b, u, r) ==
    /\ IF EditStatus(b, u) # "ok" THEN Refuse("delete", b, u, EditStatus(b, u))
       ELSE IF r \notin StagedRows(Session(b, u)) THEN Refuse("delete", b, u, "not found")
       ELSE StageRow("delete", b, u, r,
                     IF Session(b, u).rows[r] = "added" THEN "absent" ELSE "removed")
    /\ UNCHANGED sideMainVars

\* df_restore_row: mod_stager::restore_row undoes a staged modification or
\* delete of a row
df_restore_row(b, u, r) ==
    /\ IF EditStatus(b, u) # "ok" THEN Refuse("restore", b, u, EditStatus(b, u))
       ELSE IF Session(b, u).rows[r] \notin {"modified", "removed"}
       THEN Refuse("restore", b, u, "not found")
       ELSE StageRow("restore", b, u, r, "unchanged")
    /\ UNCHANGED sideMainVars

\* get_staged_df: the staged dataframe of (branch, identifier), NotFound
\* when remote_df_stager::dataset_is_indexed is false
get_staged_df(b, u) ==
    /\ IF Session(b, u).indexed
       THEN Respond("get", b, u, "ok", StagedRows(Session(b, u)))
       ELSE Respond("get", b, u, "not indexed", {})
    /\ UNCHANGED <<sgHead, sgFile, sgStore, nStageOps, sideMainVars>>

\* the diff of the staged store of (branch, identifier)
get_staged_diff(b, u) ==
    /\ IF Session(b, u).indexed
       THEN Respond("diff", b, u, "ok", StagedDiff(Session(b, u)))
       ELSE Respond("diff", b, u, "not indexed", {})
    /\ UNCHANGED <<sgHead, sgFile, sgStore, nStageOps, sideMainVars>>

\* commit: remote_dir_stager::commit writes the file with the staged edits
\* applied, commits it on the branch and clears the staged store; an error
\* of it is answered with 422 and its text
StageCommit(b, u) ==
    /\ IF EditStatus(b, u) # "ok" THEN Refuse("commit", b, u, EditStatus(b, u))
       ELSE IF StagedDiff(Session(b, u)) = {} THEN Refuse("commit", b, u, "nothing staged")
       ELSE /\ nStageOps < MaxStageOps
            /\ sgFile' = [sgFile EXCEPT ![b] = StagedRows(Session(b, u))]
            /\ sgHead' = [sgHead EXCEPT ![b] = @ + 1]
            /\ sgStore' = [sgStore EXCEPT ![SessionKey(b, u)] = NoSession]
            /\ nStageOps' = nStageOps + 1
            /\ Respond("commit", b, u, "ok", {})
    /\ UNCHANGED sideMainVars

InitStage ==
    /\ IdleRepo /\ DiffIdle /\ SchemaIdle /\ StoreIdle /\ QueueIdle /\ CreateIdle
    /\ StageIdle

NextStage ==
    \E b \in StBranches, u \in Identifiers :
        \/ index_dataset(b, u)
        \/ unindex_dataset(b, u)
        \/ df_add_row(b, u)
        \/ \E r \in RowIds : df_modify_row(b, u, r)
        \/ \E r \in RowIds : df_delete_row(b, u, r)
        \/ \E r \in RowIds : df_restore_row(b, u, r)
        \/ get_staged_df(b, u)
        \/ get_staged_diff(b, u)
        \/ StageCommit(b, u)

SpecStage == InitStage /\ [][NextStage]_vars

\* -------------------------- api::local::commits::create_commit_object
\* the parent_ids of the commit with id c: the id of a commit is a hash of
\* its fields, so they are the same whenever the commit is sent; 1 and 2
\* are root commits, every other commit has the parent two ids before it
ObjParentIds(c) == IF c <= 2 THEN {} ELSE {c - 2}

\* the commits of the db that have no parents
RootsOf(db, par) == {x \in db : par[x] = {}}

\* CommitReader::root_commit, which is not in the sources: Ok(root) when
\* the db holds a commit without parents, an error otherwise
root_commit == IF RootsOf(ccDb, ccParents) = {} THEN [ok |-> FALSE, id |-> 0]
               ELSE [ok |-> TRUE, id |-> CHOOSE x \in RootsOf(ccDb, ccParents) : TRUE]

NeverRejected(c) == FALSE

\* "If we have a root, and we are trying to push a new one, don't allow it"
RootRejected(c) == root_commit.ok /\ ObjParentIds(c) = {} /\ root_commit.id # c

\* create_commit_object_with_committers for commit c on branch b; addOk and
\* refOk say whether add_commit_to_db and set_branch_commit_id succeed. An
\* error of add_commit_to_db is logged and the call returns Ok(()); an error
\* of set_branch_commit_id is returned.
CreateCommitObject(b, c, addOk, refOk) ==
    /\ refOk \/ addOk
    /\ IF RootRejected(c)
       THEN /\ addOk /\ refOk
            /\ ccResult' = [id |-> c, branch |-> b, parent_ids |-> ObjParentIds(c),
                            stored |-> FALSE, result |-> "root_commit_does_not_match"]
            /\ UNCHANGED <<ccDb, ccParents, ccRef>>
       ELSE IF addOk
       THEN /\ ccDb' = ccDb \cup {c}
            /\ ccParents' = [ccParents EXCEPT ![c] = ObjParentIds(c)]
            /\ ccRef' = IF refOk THEN [ccRef EXCEPT ![b] = c] ELSE ccRef
            /\ ccResult' = [id |-> c, branch |-> b, parent_ids |-> ObjParentIds(c),
                            stored |-> TRUE, result |-> IF refOk THEN "ok" ELSE "err"]
       ELSE /\ ccResult' = [id |-> c, branch |-> b, parent_ids |-> ObjParentIds(c),
                            stored |-> FALSE, result |-> "ok"]
            /\ UNCHANGED <<ccDb, ccParents, ccRef>>
    /\ UNCHANGED sideStageVars

InitCreate ==
    /\ IdleRepo /\ DiffIdle /\ SchemaIdle /\ StoreIdle /\ QueueIdle /\ StageIdle
    /\ CreateIdle

NextCreate ==
    \E b \in StBranches, c \in ObjectIds, addOk \in BOOLEAN, refOk \in BOOLEAN :
        CreateCommitObject(b, c, addOk, refOk)

SpecCreate == InitCreate /\ [][NextCreate]_vars

TypeOK ==
    /\ inited \in BOOLEAN
    /\ wt \in [PathSet -> Bytes \cup {0}]
    /\ staged \in [PathSet -> Hashes \cup {0}]
    /\ versions \in [Hashes -> Bytes \cup {0}]
    /\ hist \subseteq CommitIds
    /\ commitDb \subseteq CommitIds
    /\ branches \in [BranchNames -> CommitIds \cup {0}]
    /\ head \in BranchNames \cup {"none"}

\* ------------------------------------------------------------ the claims
\* the version file of every entry of the tree t is in the version store
VersionsPresent(t) == \A p \in PathSet : t[p] # 0 => versions[t[p]] # 0

\* C1: the effects of one commit are ordered version bytes, tree, commit
\* record, branch pointer, so that in every state a crash can leave behind,
\* every branch points at a commit whose record, tree and version files are
\* all present
C1_CrashLeavesBranchesComplete ==
    \A b \in BranchNames :
        has_branch(b) =>
            /\ branches[b] \in commitDb
            /\ branches[b] \in hist
            /\ VersionsPresent(tree[branches[b]])

\* C2: when the copy of a staged file into the version store fails, the
\* commit returns an error, and no commit record is written for it
C2_FailedCopyAbortsCommit ==
    copyFailed => (lastResult # "some" /\ (opId # 0 => opId \notin commitDb))

\* C3, the pull case: after a full pull that returned Ok, every entry of the
\* tree of the commit HEAD's branch points at has its bytes in the version
\* store under the entry's hash
C3_VersionsPresentAfterPull ==
    (pc = "idle" /\ lastOp = "pull" /\ lastResult = "ok" /\ HeadCommitId \in hist)
        => VersionsPresent(tree[HeadCommitId])

\* C4: once a branch exists, after any command has returned, with Ok or with
\* an error, every branch points at a commit of the commit db and HEAD names
\* a branch that exists
C4_ReferencesResolve ==
    (pc = "idle" /\ \E b \in BranchNames : has_branch(b)) =>
        /\ \A b \in BranchNames : has_branch(b) => branches[b] \in commitDb
        /\ head \in BranchNames /\ has_branch(head)

RECURSIVE AncestorsWithin(_, _)
\* the commits reached from the set S along parent_ids in at most k steps
AncestorsWithin(S, k) ==
    IF k = 0 THEN S
    ELSE AncestorsWithin(S \cup UNION {parents[c] : c \in S}, k - 1)

\* C5: every parent id of a commit of the commit db is in the commit db, and
\* no commit is its own ancestor
C5_ParentsPresentAcyclic ==
    \A c \in commitDb :
        /\ parents[c] \subseteq commitDb
        /\ c \notin AncestorsWithin(parents[c], Cardinality(CommitIds))

\* the references as they are when the running operation has completed
PostRefs ==
    IF lastOp \in {"pull", "pull_objects"}
    THEN <<opBranch, [preRefs[2] EXCEPT ![opBranch] = opId]>>
    ELSE <<preRefs[1], [preRefs[2] EXCEPT ![preRefs[1]] = opId]>>

\* C6: while a commit or a pull runs, and no call has failed, HEAD and the
\* branches read together are as they were before the operation or as they
\* are after it, never a mixture
C6_ReadersSeePreOrPost ==
    (pc # "idle" /\ nFaults = 0) => <<head, branches>> \in {preRefs, PostRefs}

\* C7: a commit with nothing staged returns no commit and leaves the log,
\* the commit db, every branch and HEAD as they were
C7_NothingStagedNoCommit ==
    [][(pc = "idle" /\ lastOp' = "commit" /\ StatusAdded = {})
        => /\ lastResult' = "none" /\ pc' = "idle"
           /\ Log' = Log
           /\ commitDb' = commitDb
           /\ branches' = branches
           /\ head' = head]_vars

\* a commit was asked for in an initialised repository with nothing staged
C7_Witness ==
    pc = "idle" /\ lastOp = "commit" /\ lastResult = "none" /\ Log # {}

\* C8: staging is cleared exactly when a commit succeeds: after a commit that
\* returned a commit nothing is staged and status reports nothing added, and
\* every step of a commit call but the one that returns the commit leaves the
\* staged entries as they were
C8_StagingClearedOnSuccess ==
    /\ []((pc = "idle" /\ lastOp = "commit" /\ lastResult = "some")
            => (staged = EmptyTree /\ StatusAdded = {}))
    /\ [][(lastOp' = "commit" /\ lastResult' # "some") => staged' = staged]_vars

\* a commit of staged files has returned the new commit
C8_Witness ==
    /\ pc = "idle" /\ lastOp = "commit" /\ lastResult = "some"
    /\ HeadCommitId \in commitDb /\ parents[HeadCommitId] # {}

\* init has returned Ok and nothing else has been done since
AfterInit == pc = "idle" /\ lastOp = "init" /\ lastResult = "some"

\* the first commit after a successful init, whose commit has the id 1, has
\* returned the new commit, and no branch has been created
AfterFirstCommit ==
    /\ pc = "idle" /\ lastOp = "commit" /\ lastResult = "some"
    /\ HasHeadCommit /\ parents[HeadCommitId] = {1}
    /\ \A b \in BranchNames : has_branch(b) => b = DEFAULT_BRANCH_NAME

C10_CheckoutRoundTrip ==
    [][\A name \in BranchNames :
         (/\ pc = "idle" /\ HasHeadCommit /\ HeadCommitId \in hist
          /\ name # head /\ has_branch(name)
          /\ branches[name] \in commitDb /\ branches[name] \in hist
          /\ ~CheckoutRefuses(wt, HeadTree, tree[branches[name]])
          /\ lastOp' = "checkout" /\ lastArg' = name)
         => /\ lastResult' = "ok"
            /\ head' = name
            /\ \A p \in PathSet :
                 HeadTree[p] # tree[branches[name]][p]
                     => ~Dirty(wt', tree[branches[name]], p)]_vars

\* the step is a checkout of branch `name`, another branch than the current
\* one, whose commit and tree are in the repository
CheckoutStep(name) ==
    /\ pc = "idle" /\ head \in BranchNames
    /\ has_branch(head) /\ name # head /\ has_branch(name)
    /\ branches[name] \in commitDb /\ branches[name] \in hist
    /\ lastOp' = "checkout" /\ lastArg' = name

\* C11: a checkout leaves every file alone that is the same in the tree of
\* the current HEAD and in the target tree; an untracked file, which is in
\* neither, is still there with the same bytes
C11_CheckoutTouchesOnlyDifferences ==
    [][\A name \in BranchNames :
         CheckoutStep(name) =>
             \A p \in PathSet :
                 HeadTree[p] = tree[branches[name]][p] => wt'[p] = wt[p]]_vars

\* a checkout has moved HEAD to a tree that differs from the one it left,
\* and an untracked file is in the working tree
C11_Witness ==
    /\ pc = "idle" /\ lastOp = "checkout" /\ lastResult = "ok" /\ lastArg = head
    /\ \E b \in BranchNames : has_branch(b) /\ branches[b] \in hist
                              /\ tree[branches[b]] # HeadTree
    /\ \E p \in PathSet :
          /\ wt[p] # 0
          /\ \A b \in BranchNames : has_branch(b) => tree[branches[b]][p] = 0

\* C12: a checkout in a working tree with an uncommitted modification to a
\* file that differs between the current and the target commit returns an
\* error and changes neither HEAD nor the working tree
C12_CheckoutRefusesDirty ==
    [][\A name \in BranchNames :
         (CheckoutStep(name)
          /\ CheckoutRefuses(wt, HeadTree, tree[branches[name]]))
         => (lastResult' = "err" /\ head' = head /\ wt' = wt)]_vars

\* a checkout was refused: HEAD is elsewhere and a differing file is modified
C12_Witness ==
    /\ pc = "idle" /\ lastOp = "checkout" /\ lastResult = "err"
    /\ lastArg \in BranchNames /\ lastArg # head
    /\ has_branch(head) /\ has_branch(lastArg)
    /\ branches[lastArg] \in commitDb /\ branches[lastArg] \in hist
    /\ CheckoutRefuses(wt, HeadTree, tree[branches[lastArg]])

\* the place in PathOrder of the first file that differs between the trees
\* and whose target version is not in the version store (0: there is none)
FirstFailure(cur, tgt) ==
    LET bad == {i \in 1..Len(PathOrder) :
                  /\ cur[PathOrder[i]] # tgt[PathOrder[i]]
                  /\ tgt[PathOrder[i]] # 0
                  /\ versions[tgt[PathOrder[i]]] = 0}
    IN IF bad = {} THEN 0 ELSE CHOOSE i \in bad : \A j \in bad : i <= j

PushReturnedOk == pc = "idle" /\ lastOp = "push" /\ lastResult = "ok"

\* C14: the branch update of a push is sent only after every commit record,
\* every metadata tarball and every version file the push sent was accepted
\* by the remote; when one of them was not accepted it is not sent
C14_BranchUpdateAfterAllAccepted ==
    [][(pc = "ps_branch" /\ PushReturnedOk')
        => /\ swallowed = "none"
           /\ \A k \in 1..Len(posted) :
                 posted[k] \in rCommits /\ posted[k] \in rHist]_vars

\* C15: the unknown ancestors are posted oldest first: when the record of a
\* commit is posted, every parent of it is already on the remote; and the
\* remote never has the metadata tarball of a commit without its record
C15_ParentsPostedFirst ==
    /\ [][\A c \in PushIds :
            posted' = Append(posted, c) => parents[c] \subseteq rCommits]_vars
    /\ [](rHist \subseteq rCommits)

\* C16: when a push in which no request failed returns Ok, the remote has
\* the version file of every entry of the head commit and of every commit
\* the push posted
C16_PushUploadsEveryVersion ==
    (PushReturnedOk /\ nNetFails = 0)
        => \A c \in {HeadCommitId} \cup SeqToSet(posted) :
               TreeHashes(tree[c]) \subseteq rVersions

\* C17: when the upload of a chunk still fails after its last retry, the
\* push returns an error (and so never reaches the branch update)
C17_ExhaustedUploadFailsPush ==
    (pc = "idle" /\ lastOp = "push" /\ swallowed = "chunk") => lastResult = "err"

\* C18: an upload makes at most num_retries attempts; an attempt that
\* succeeds ends the loop with Ok at once, an attempt that fails is counted,
\* the loop ends with an error exactly when the budget is used up, and every
\* retry loop ends
C18_RetriesBounded ==
    /\ [](tries <= num_retries)
    /\ [][(pc = "ps_upload" /\ pc' = "ps_up_ok")
            => (tries < num_retries /\ sent'[Len(sent')].ok)]_vars
    /\ [][(pc = "ps_upload" /\ pc' = "ps_upload") => tries' = tries + 1]_vars
    /\ [][(pc = "ps_upload" /\ pc' = "ps_up_err") => tries = num_retries]_vars
    /\ [][pc = "ps_upload" => pc' \in {"ps_upload", "ps_up_ok", "ps_up_err"}]_vars
    /\ (pc = "ps_upload") ~> (pc \in {"ps_up_ok", "ps_up_err"})
\* an upload succeeds at its last attempt
C18_Witness == pc = "ps_up_ok" /\ tries = num_retries - 1

\* C19: the sleeps of a retry loop grow exponentially: each is the one
\* before it times one and the same factor of at least two
C19_BackoffExponential ==
    /\ \A k \in 1..(Len(sleeps) - 1) : sleeps[k + 1] >= 2 * sleeps[k]
    /\ \A k \in 1..(Len(sleeps) - 2) :
          sleeps[k + 1] * sleeps[k + 1] = sleeps[k] * sleeps[k + 2]

RECURSIVE ConcatData(_, _)
\* the data of the first k requests, one after the other
ConcatData(reqs, k) ==
    IF k = 0 THEN <<>> ELSE ConcatData(reqs, k - 1) \o reqs[k].data

TotalChunks(c) == Len(BufferChunks(TarballOf(c), chunk_size))
\* the remote holds a chunk of commit c under every index
HoldsEveryChunk(c) ==
    \A n \in 0..(TotalChunks(c) - 1) :
        \E k \in 1..Len(rChunks[c]) : rChunks[c][k].n = n

\* C21: a chunk sent under an index the remote already holds changes nothing
\* on the remote; the remote holds every chunk index at most once; and when
\* it holds them all, what they make together is the payload, with the hash
\* the client computed before sending
C21_ResumeByChunkIndex ==
    /\ [][(/\ pc = "ps_upload" /\ pc' = "ps_up_ok"
           /\ sent[Len(sent)].kind = "chunk"
           /\ \E k \in 1..Len(rChunks[Head(stack).c]) :
                 rChunks[Head(stack).c][k].n = sent[Len(sent)].chunk_num)
            => (rChunks' = rChunks /\ rHist' = rHist)]_vars
    /\ [](\A c \in PushIds :
            /\ \A j, k \in 1..Len(rChunks[c]) :
                  rChunks[c][j].n = rChunks[c][k].n => j = k
            /\ HoldsEveryChunk(c) =>
                  /\ Reassemble(rChunks[c], TotalChunks(c)) = TarballOf(c)
                  /\ hash_buffer(Reassemble(rChunks[c], TotalChunks(c)))
                        = hash_buffer(TarballOf(c))
                  /\ c \in rHist)
\* an upload that had lost its first chunk was started again and has sent
\* its last chunk, which the remote held already: the remote has the payload
C21_Witness ==
    /\ pc = "ps_up_ok"
    /\ LET c == Head(stack).c
       IN /\ TotalChunks(c) >= 2
          /\ upChunk = TotalChunks(c) - 1
          /\ Len(rChunks[c]) = TotalChunks(c)
          /\ rChunks[c][1].n # 0
          /\ c \in rHist

\* C22: a push that is started while the branch is locked, by the push of
\* another session, fails at once: it does not go on to transfer content
C22_PushHoldsBranchLock ==
    [][(rLock /\ pc = "idle") => pc' # "ps_walk"]_vars

\* C23: while the branch is locked, a commit request of another session
\* changes nothing: the branch and the commit store stay as they were
C23_CommitOnLockedBranchRefused ==
    [][(rLock /\ nLanded' # nLanded)
        => (rBranch' = rBranch /\ rCommits' = rCommits /\ rHist' = rHist)]_vars

\* C24: latest_synced_commit is the head of the branch when the branch is
\* not locked; when the lock is taken it is the head of that moment, and it
\* stays there as long as the lock is held, whatever lands on the branch
C24_LatestSyncedFollowsLock ==
    /\ [](~rLock => latest_synced_commit = rBranch)
    /\ [][(~rLock /\ rLock') => latest_synced_commit' = rBranch]_vars
    /\ [][(rLock /\ rLock') => latest_synced_commit' = latest_synced_commit]_vars
\* a commit has landed on the locked branch
C24_Witness ==
    /\ rLock
    /\ rBranch \in StagedIds
    /\ latest_synced_commit \notin {0, rBranch}

\* the running push asks the remote about the commit on top of its stack
CheckStep == pc = "ps_walk" /\ Head(stack).ph = "check" /\ stack' # stack

\* C27: push takes a commit for a common point, queueing it without posting
\* it, only when the remote has its record, its metadata and the version file
\* of every entry; and when the remote has all of these and its answer comes
\* through, the commit is taken for a common point
C27_SyncedOnlyWhenComplete ==
    /\ [][(CheckStep /\ unsynced' # unsynced)
            => LET c == Head(stack).c
               IN /\ c \in rCommits /\ c \in rHist
                  /\ TreeHashes(tree[c]) \subseteq rVersions]_vars
    /\ [][(CheckStep /\ nNetFails' = nNetFails)
            => LET c == Head(stack).c
               IN (/\ c \in rCommits /\ c \in rHist
                   /\ TreeHashes(tree[c]) \subseteq rVersions)
                      => unsynced' = Append(unsynced, c)]_vars
\* the remote has the record and the metadata of a root commit from an
\* earlier push, but not its files: the answer was false, it is posted again
C27_Witness ==
    /\ pc = "ps_walk" /\ Head(stack).ph = "root"
    /\ posted = <<>> /\ unsynced = <<>>
    /\ LET c == Head(stack).c
       IN /\ c \in rCommits /\ c \in rHist
          /\ ~(TreeHashes(tree[c]) \subseteq rVersions)

\* a step of a running pull
PullStep == lastOp = "pull" /\ pc \in {"p_sethead", "p_setbranch", "p_objects",
                                        "p_entries", "p_done"}
\* the local side holds the pulled commit: its record, its history db, its
\* parents' records and the version file of every entry
PulledCommitFetched ==
    /\ opId \in commitDb /\ opId \in hist
    /\ parents[opId] \subseteq commitDb
    /\ \A p \in PathSet : tree[opId][p] # 0 => versions[tree[opId][p]] # 0

\* C26: a running pull writes HEAD or a branch only when the pulled commit,
\* its ancestors and its version files have been fetched
C26_PullWritesRefsLast ==
    [][(PullStep /\ <<head, branches>>' # <<head, branches>>)
        => PulledCommitFetched]_vars

\* the rows of the result that carry the key k
RowsOfKey(k) == {i \in 1..Len(diffOut.rows) : diffOut.rows[i].key = k}
\* the key k is in the result once, with the status st
ClassifiedAs(k, st) ==
    /\ Cardinality(RowsOfKey(k)) = 1
    /\ \A i \in RowsOfKey(k) : diffOut.rows[i].status = st
\* what the result holds for the key k, given the sides that have it
ClassifiedBySide(k) ==
    LET l == diffIn.left[k]
        r == diffIn.right[k]
    IN /\ (l = Null /\ r = Null) => RowsOfKey(k) = {}
       /\ (l = Null /\ r # Null) => ClassifiedAs(k, DIFF_STATUS_ADDED)
       /\ (l # Null /\ r = Null) => ClassifiedAs(k, DIFF_STATUS_REMOVED)
       /\ (l # Null /\ r # Null /\ l # r) => ClassifiedAs(k, DIFF_STATUS_MODIFIED)
       /\ (l # Null /\ r # Null /\ l = r) => RowsOfKey(k) = {}

\* C28: a diff with keys and targets puts a key only on the right in the
\* result once as added, a key only on the left once as removed, a key on
\* both sides with differing target hashes once as modified, and leaves a key
\* on both sides with the same target hash out
C28_EveryKeyClassifiedOnce ==
    (diffOut.outcome = "ok" /\ diffIn.targets # <<>>)
        => \A k \in KeyVals : ClassifiedBySide(k)

\* C29: a diff called with no key columns and no target columns returns a
\* result, and every key whose rows differ between the two sides is in it
C29_NoKeysNoTargetsFallsBack ==
    (diffOut # NoDiffOutput /\ diffIn.keys = <<>> /\ diffIn.targets = <<>>)
        => /\ diffOut.outcome = "ok"
           /\ \A k \in KeyVals :
                diffIn.left[k] # diffIn.right[k] => RowsOfKey(k) # {}

\* the place of a column in the output
ColumnIndex(c) == CHOOSE i \in 1..Len(diffOut.columns) : diffOut.columns[i] = c
HasColumn(c) == \E i \in 1..Len(diffOut.columns) : diffOut.columns[i] = c
TargetSet == {diffIn.targets[i] : i \in 1..Len(diffIn.targets)}
InBothFiles(t) == t \in diffIn.unchanged_cols
\* the columns the output has for the targets
TargetOutputColumns ==
    {c \in {diffOut.columns[i] : i \in 1..Len(diffOut.columns)} :
        c.name \in TargetSet /\ c.side # ""}
\* the display columns that the files have
DisplayOutputColumns ==
    {diffIn.display[i] : i \in
        {j \in 1..Len(diffIn.display) :
            \/ /\ diffIn.display[j].side = "left"
               /\ diffIn.display[j].name
                     \in diffIn.removed_cols \cup diffIn.unchanged_cols
            \/ /\ diffIn.display[j].side = "right"
               /\ diffIn.display[j].name
                     \in diffIn.added_cols \cup diffIn.unchanged_cols}}
\* keys first and in order, the status column last, the statuses of the rows
KeysFirstStatusLast ==
    /\ \A i \in 1..Len(diffIn.keys) : diffOut.columns[i] = Col(diffIn.keys[i], "")
    /\ diffOut.columns[Len(diffOut.columns)] = Col(DIFF_STATUS_COL, "")
    /\ \A i \in 1..Len(diffOut.rows) :
          diffOut.rows[i].status
             \in {DIFF_STATUS_ADDED, DIFF_STATUS_REMOVED, DIFF_STATUS_MODIFIED}

\* C30 as the specification words it: the keys, then for every target one
\* merged column under its own name when it is in both files and else its
\* .right or .left column, then the display columns, the status last
C30_MergedTargetColumn ==
    diffOut.outcome = "ok"
        => /\ KeysFirstStatusLast
           /\ \A t \in TargetSet :
                 /\ InBothFiles(t) => HasColumn(Col(t, ""))
                 /\ t \in diffIn.added_cols => HasColumn(Col(t, "right"))
                 /\ t \in diffIn.removed_cols => HasColumn(Col(t, "left"))

\* C30: the output has the keys first in their order; then for every target,
\* in the order of the targets, name.right when only the right file has it,
\* name.left when only the left file has it, and name.left followed by
\* name.right when both have it, never a merged column; then the display
\* columns the files have; the status column last, valued only added,
\* removed or modified
C30_OutputColumnOrder ==
    diffOut.outcome = "ok"
        => /\ KeysFirstStatusLast
           /\ \A t \in TargetSet :
                 /\ ~HasColumn(Col(t, "")) \/ t \in {diffIn.keys[i] : i \in 1..Len(diffIn.keys)}
                 /\ t \in diffIn.added_cols
                      => HasColumn(Col(t, "right")) /\ ~HasColumn(Col(t, "left"))
                 /\ t \in diffIn.removed_cols
                      => HasColumn(Col(t, "left")) /\ ~HasColumn(Col(t, "right"))
                 /\ InBothFiles(t)
                      => /\ HasColumn(Col(t, "left")) /\ HasColumn(Col(t, "right"))
                         /\ ColumnIndex(Col(t, "right")) = ColumnIndex(Col(t, "left")) + 1
           /\ \A i, j \in 1..Len(diffIn.targets) :
                 i < j => \A c \in TargetOutputColumns, d \in TargetOutputColumns :
                            (c.name = diffIn.targets[i] /\ d.name = diffIn.targets[j])
                               => ColumnIndex(c) < ColumnIndex(d)
           /\ \A c \in TargetOutputColumns :
                 /\ ColumnIndex(c) > Len(diffIn.keys)
                 /\ \A d \in DisplayOutputColumns : ColumnIndex(c) < ColumnIndex(d)
           /\ \A d \in DisplayOutputColumns : HasColumn(d)
           /\ Len(diffOut.columns) = Len(diffIn.keys) + Cardinality(TargetOutputColumns)
                                       + Cardinality(DisplayOutputColumns) + 1
\* a diff with two keys, a target only the right file has, a target both
\* files have and display columns returned rows
C30_Witness ==
    /\ diffOut.outcome = "ok"
    /\ Len(diffIn.keys) = 2
    /\ diffIn.targets = <<"city", "age">>
    /\ diffIn.display # <<>>
    /\ Len(diffOut.rows) >= 2

\* the pull into the empty clone has returned, and none of its requests failed
ClonePulled == cloneOf # 0 /\ lastOp = "pull" /\ pc = "idle" /\ nFaults = 0

\* C25: after a push of commit C that returned Ok, a pull of the pushed
\* branch into an empty clone returns Ok and leaves HEAD at a commit whose
\* entries are the paths and hashes of C
C25_PushPullRoundTrip ==
    ClonePulled => (lastResult = "ok" /\ HeadTree = PushTree(cloneOf))

\* a sequence that holds no element twice
NoRepeat(q) == \A i, j \in 1..Len(q) : q[i] = q[j] => i = j

\* C39: during one push no commit is posted to the remote twice, and no
\* commit is twice in the list of the commits whose entries are pushed
C39_PostedExactlyOnce ==
    (lastOp = "push") => (NoRepeat(posted) /\ NoRepeat(unsynced))

\* C31: two schemas with the same list of fields have the same hash whatever
\* their names, and two schemas whose lists of fields differ have different
\* hashes
C31_SchemaHashOverFields ==
    schemaOut # <<>>
        => /\ schemaOut[1].fields = schemaOut[2].fields
                => schemaOut[1].hash = schemaOut[2].hash
           /\ schemaOut[1].fields # schemaOut[2].fields
                => schemaOut[1].hash # schemaOut[2].hash

\* C34: at every moment every version path either does not exist or holds
\* the complete bytes of its file
C34_NoHalfWrittenVersion ==
    \A p \in VersionPaths : vstore[p] \in {NoFile, FileOf(FullBytes(p))}

C35_CorruptionIsFatal ==
    \A w \in Writers : "entry" \in vUnreadable => wpc[w] = "idle"

\* ---------------------------------------------------------------- C32
\* the rows a request edits
RowEdits == {"append", "modify", "delete", "restore"}

\* C32: staged-row edit sessions are isolated per (branch, user): a request
\* of one branch and identifier leaves the staged store of every other
\* (branch, identifier) as it was, and the staged dataframe and the diff it
\* is answered with are those of the staged store of its own branch and
\* identifier.
C32_SessionsIsolated ==
    [][LET own == <<sgResp'.branch, sgResp'.identifier>>
       IN  /\ \A k \in StBranches \X Identifiers :
                k # own => sgStore'[k] = sgStore[k]
           /\ (sgResp'.op = "get" /\ sgResp'.status = "ok")
                => sgResp'.view = StagedRows(sgStore[own])
           /\ (sgResp'.op = "diff" /\ sgResp'.status = "ok")
                => sgResp'.view = StagedDiff(sgStore[own])]_vars

\* two users have edited the same file of the same branch, and their staged
\* stores differ
C32_Witness ==
    /\ sgStore[<<"main", "u1">>].indexed
    /\ sgStore[<<"main", "u2">>].indexed
    /\ StagedDiff(sgStore[<<"main", "u1">>]) # {}
    /\ StagedDiff(sgStore[<<"main", "u1">>]) # StagedDiff(sgStore[<<"main", "u2">>])
    /\ sgResp.op \in RowEdits /\ sgResp.status = "ok"

\* ---------------------------------------------------------------- C33
\* C33: once a commit of another session has moved the head of the branch,
\* a row edit or a commit of a session that was indexed on the earlier head
\* is answered with "stale base" and changes neither the staged stores nor
\* the branch; indexing the file again puts the session on the new head.
C33_StaleSessionRefused ==
    [][LET b == sgResp'.branch
           own == <<sgResp'.branch, sgResp'.identifier>>
       IN  /\ (/\ sgResp'.op \in RowEdits \cup {"commit"}
               /\ sgStore[own].indexed
               /\ sgStore[own].base # sgHead[b])
                => (/\ sgResp'.status = "stale base"
                    /\ UNCHANGED <<sgHead, sgFile, sgStore>>)
           /\ sgResp'.op = "index" => sgStore'[own].base = sgHead'[b]]_vars

\* a session that was indexed before the commit of another session has had
\* a request refused
C33_Witness ==
    /\ sgResp.status = "stale base"
    /\ sgStore[<<sgResp.branch, sgResp.identifier>>].indexed
    /\ sgStore[<<sgResp.branch, sgResp.identifier>>].base < sgHead[sgResp.branch]

\* ---------------------------------------------------------------- C38
\* C38: when the server creates a commit object, a failure to store the
\* commit record is returned as an error, and the call returns Ok only if
\* the record was stored and the branch points at the commit.
C38_CreateSurfacesFailure ==
    /\ (ccResult.id # 0 /\ ~ccResult.stored) => ccResult.result # "ok"
    /\ ccResult.result = "ok"
         => (ccResult.id \in ccDb /\ ccRef[ccResult.branch] = ccResult.id)

CommitPcs == {"c_backup", "c_tree", "c_record", "c_branch", "c_unstage"}

====
